---------------------------- MODULE Spec2Model ----------------------------
(***************************************************************************)
(* YoloGuard: the real-time recognition pipeline.                          *)
(*                                                                         *)
(*   Spec         the FrameProcessor worker (utils/frame_processor.py),    *)
(*                its bounded queue and the GUI thread that feeds, starts  *)
(*                and stops it (gui/main_window.py)                        *)
(*   FairSpec     Spec with the fairness of the thread scheduler           *)
(*   SpecGallery  recognize_face iterating the gallery dict while the GUI  *)
(*                thread reloads it or deletes a person                    *)
(*   SpecMatch    recognize_face as a function of query and gallery        *)
(*   SpecMatchers FrameProcessor.recognize_face and                        *)
(*                PersonRecognizer.recognize_face on the same inputs       *)
(*   SpecBoxes    the rescale-and-clamp step on one detector box, in run() *)
(*                and in YoloDetector.scale_detections                     *)
(*   SpecTensor   the face-tensor normalization at each of its consumers   *)
(*   SpecBuild    PersonDatabase.load_database building the gallery        *)
(*   SpecFrame    the body of the worker loop on one dequeued frame        *)
(*   SpecThreads  Spec, and the GUI thread loading the gallery             *)
(*   SpecDelivery the worker and the consumer of its results, the worker   *)
(*                scheduled fairly, the consumer as slow as it likes       *)
(*   SpecTimer    the camera timer: update_frame and the add_frame it      *)
(*                calls, tick after tick                                   *)
(*   SpecConsumer on_frame_processed and its cooldown                      *)
(*                                                                         *)
(* Lengths are in hundredths: a distance of 1.2 is 120.                    *)
(***************************************************************************)
EXTENDS Integers, Sequences, FiniteSets, TLC

\* ------------------------------------------------------------------ bounds
\* add_frame calls made in one run
MaxFrames == 5
\* values of the frame-skip spinner that are tried: 1..MaxSkip
MaxSkip == 2
\* registered persons: 1..MaxPersons
MaxPersons == 3
\* embeddings lie at the points k * <<18, 24>>, k in 0..MaxStep
MaxStep == 5
\* registrations, deletions and reloads made in one run
MaxChanges == 2
\* entries of a gallery handed to the matcher
MaxGallery == 2

\* detector coordinates tried: (k - 1) * XStep and (k - 1) * YStep, k in 0..MaxCoord
MaxCoord == 6
\* frame sizes tried: k/2 times the detection size, k in 1..MaxScale
MaxScale == 3

\* leading dimensions of a detector tensor: at most MaxLead of them ...
MaxLead == 2
\* ... each of a size in 1..MaxBatch
MaxBatch == 2

\* identity folders in the store at a gallery build
MaxIdentities == 2
\* image files in an identity folder
MaxImages == 6
\* folder names an identity folder can have: 1..MaxNames
MaxNames == 2

\* boxes the person detector returns for one frame
MaxBoxes == 2

\* timer ticks in one run
MaxTicks == 20

\* seconds a run of the consumer lasts
MaxTime == 6
\* results the consumer handles in one run
MaxResults == 4
\* values of the cooldown spinner that are tried, in seconds: 1..MaxCooldown
MaxCooldown == 3

\* ------------------------------------------------------- program constants
\* Queue(maxsize=2)
QueueMaxSize == 2
\* self.process_every_n_frames = 2
DefaultSkip == 2
\* recognize_face(self, face_embedding, threshold=1.2)
Threshold == 120
\* min_dist = float('inf'): above every distance of the model
Inf == 1000000

\* cv2.resize(frame, (640, 480)); small_shape=(640, 480)
SmallWidth == 640
SmallHeight == 480
\* if (x2 - x1) < 60 or (y2 - y1) < 60: continue
MinFace == 60

\* image_files = [...][:5]
ImageLimit == 5

\* if identity and confidence > 20
MinConfidence == 20

\* self.fps_deque = deque(maxlen=30)
FpsWindow == 30
\* self.frame_skip_spinner.setRange(1, 10)
SpinnerMax == 10
\* self.detection_cooldown = 3.0
DefaultCooldown == 3

\* UniversityPersonData: the metadata record of a person
Metadata(p) == [nombre |-> p]
\* Python's None: the metadata of nobody
None == [nombre |-> 0]

Frames == 1..MaxFrames
Persons == 1..MaxPersons
SkipValues == 1..MaxSkip

Max(a, b) == IF a >= b THEN a ELSE b

\* ---------------------------------------------------------------- matcher
\* A FeatureVector: a tuple of integers.
Point(k) == <<18 * k, 24 * k>>
Points == {Point(k) : k \in 0..MaxStep}

VecSub(a, b) == [i \in DOMAIN a |-> a[i] - b[i]]

RECURSIVE SumSq(_, _)
SumSq(v, i) == IF i = 0 THEN 0 ELSE v[i] * v[i] + SumSq(v, i - 1)

\* the integer square root of s, by Newton's iteration from x >= sqrt(s)
RECURSIVE ISqrtFrom(_, _)
ISqrtFrom(s, x) ==
    LET y == (x + s \div x) \div 2
    IN  IF y >= x THEN x ELSE ISqrtFrom(s, y)

\* np.linalg.norm: the Euclidean norm.  On Points every difference has an exact
\* norm, a multiple of 30.
Norm(v) ==
    LET s == SumSq(v, Len(v))
    IN  IF s = 0 THEN 0 ELSE ISqrtFrom(s, s)

\* a score that grows with the distance
Confidence_Distance(dist, threshold) == Max(0, (dist * 100) \div threshold)

\* max(0, (1 - (dist / threshold)) * 100), in percent.  For the distances of
\* Points and the threshold 120 the quotient is an integer.
Confidence(dist, threshold) == Max(0, ((threshold - dist) * 100) \div threshold)

\* A gallery entry:  person (the dict key), kind, embeddings, data (metadata).
\*   kind "ok"     the entry holds 'embeddings'
\*   kind "nokey"  'embeddings' not in data
\*   kind "bad"    the distance computation raises
Entry(p, kind, e) ==
    [person |-> p, kind |-> kind, embeddings |-> e, data |-> Metadata(p)]

\* the accumulator of the loop: min_dist, identity, confidence
MatchInit == [min_dist |-> Inf, identity |-> None, confidence |-> 0]

\* a loop body that keeps the first entry it can measure
MatchStep_First(acc, face_embedding, data, threshold) ==
    IF data.kind # "ok" \/ acc.identity # None
    THEN acc
    ELSE LET dist == Norm(VecSub(face_embedding, data.embeddings))
         IN  [min_dist |-> dist, identity |-> data.data,
              confidence |-> Confidence(dist, threshold)]

\* One pass of the loop body of recognize_face on one entry.
MatchStep(acc, face_embedding, data, threshold) ==
    IF data.kind # "ok"
    THEN acc
    ELSE LET dist == Norm(VecSub(face_embedding, data.embeddings))
         IN  IF dist < acc.min_dist
             THEN [min_dist |-> dist, identity |-> data.data,
                   confidence |-> Confidence(dist, threshold)]
             ELSE acc

\* recognize_face without the test against the threshold
MatchFinish_NoThreshold(acc, threshold) == <<acc.identity, acc.confidence>>

\* What recognize_face returns once the loop has ended.
MatchFinish(acc, threshold) ==
    IF acc.min_dist > threshold
    THEN <<None, 0>>
    ELSE <<acc.identity, acc.confidence>>

RECURSIVE MatchLoop(_, _, _, _, _)
MatchLoop(acc, face_embedding, gallery, i, threshold) ==
    IF i > Len(gallery)
    THEN acc
    ELSE MatchLoop(MatchStep(acc, face_embedding, gallery[i], threshold),
                   face_embedding, gallery, i + 1, threshold)

\* FrameProcessor.recognize_face on a gallery that nobody changes meanwhile:
\* the gallery is the sequence of the dict's values in iteration order.
RecognizeFace(face_embedding, gallery, threshold) ==
    IF Len(gallery) = 0
    THEN <<None, 0>>
    ELSE MatchFinish(MatchLoop(MatchInit, face_embedding, gallery, 1, threshold),
                     threshold)


\* ------------------------------------------------------------------ state
VARIABLES
    \* FrameProcessor (utils/frame_processor.py)
    frame_queue,             \* self.frame_queue: the frames waiting, oldest first
    frame_count,             \* self.frame_count
    process_every_n_frames,  \* self.process_every_n_frames
    running,                 \* self.running
    thread,                  \* the QThread: "idle", "running" or "finished"
    wpc,                     \* where run() stands
    frame,                   \* run()'s local frame while it is in use (0: none)
    \* AccessControlSystem (gui/main_window.py), the GUI thread
    gui_pc,                  \* where the GUI thread stands
    is_camera_running,       \* self.is_camera_running
    \* history of the run
    calls,                   \* add_frame calls begun; the k-th call carries frame k
    fate,                    \* per frame: none, skipped, pending, dropped, accepted
    dequeues,                \* per frame: times frame_queue.get() returned it
    emissions,               \* per frame: times frame_processed was emitted for it
    errors,                  \* frames on which the processing raised
    skip_changed,            \* process_every_n_frames was changed after a first call
    saw_full,                \* in add_frame: the queue was full when the call began
    loops,                   \* instances of run() that have begun and not returned
    inference,               \* who has run the models: <<thread, on what>>
    events,                  \* frame_processed signals posted to the GUI thread, oldest first
    fps_deque,               \* self.fps_deque: per measured iteration, its frame
    \* the gallery (data/database.py) and recognize_face walking it
    person_database,         \* the dict's entry table: entries and holes in order
    store,                   \* persons in the identity store that embed
    mw_db,                   \* the dict AccessControlSystem.person_database names
    fp_db,                   \* the dict FrameProcessor.person_database names
    gl_pc,                   \* where reload_database / delete stands
    load_todo,               \* load_database: persons still to add
    rf_pc,                   \* where recognize_face stands
    rf_query,                \* face_embedding
    rf_it,                   \* the dict iterator: position and the size it expects
    rf_acc,                  \* min_dist, identity, confidence
    rf_seen,                 \* persons the loop has visited in this call
    rf_result,               \* what the call returned
    committed,               \* the last complete gallery (persons in order)
    rf_versions,             \* complete galleries current at some time in this call
    changes,                 \* registrations, deletions and reloads begun
    \* the matcher as a function
    m_query, m_gallery, m_result, m_pc,
    m_both,                  \* per threshold: what either matcher returned
    \* the rescale-and-clamp step on one detector box
    b_box,                   \* box.xyxy[0] after map(int, ...): <<x1, y1, x2, y2>>
    b_shape,                 \* frame.shape: <<height, width>>
    b_scaled,                \* what YoloDetector.scale_detections returned
    b_kept,                  \* the box run() goes on with (<<>>: dropped)
    b_pc,
    \* the consumers of one face detector output
    t_faces,                 \* faces = self.mtcnn(rgb)
    t_worker,                \* what FrameProcessor.run did with it
    t_build,                 \* what PersonDatabase.load_database did with it
    t_dialog,                \* what RegistrationDialog did with it
    t_pft,                   \* what FaceDetector.process_face_tensor returned
    t_pc,
    \* PersonDatabase.load_database building the gallery
    g_pc,                    \* where load_database stands
    g_total,                 \* identity folders in the store
    g_folders,               \* their names, in the order of the scan
    g_person,                \* the identity folder at hand: 1..g_total
    g_todo,                  \* image_files still to process
    g_tried,                 \* image files of this identity processed
    g_embeddings,            \* embeddings
    g_db,                    \* self.person_database
    g_aborted,               \* the except of line 185 was taken
    g_good,                  \* identity folders with embeddings: their number and sum
    \* FrameProcessor.run on one dequeued frame
    f_pc,                    \* where the loop body stands
    f_left,                  \* boxes of the detector still to go through
    f_regions,               \* what became of each box so far
    f_identity,              \* detected_identity
    f_confidence,            \* detected_confidence
    f_emitted,               \* the frame_processed emissions for this frame
    f_error,                 \* what the except of line 201 caught
    \* the camera timer, a record:
    \*   n          process_every_n_frames, of the window and of the worker
    \*   ticks      timer ticks so far
    \*   mw_count   AccessControlSystem.frame_count
    \*   fp_count   FrameProcessor.frame_count
    \*   reads      ticks whose frame was read and passed to add_frame
    \*   submitted  ticks whose frame add_frame went on to enqueue
    timer,
    \* the consumer of the results, a record:
    \*   now        time.time(), in seconds
    \*   last       self.last_detection_time
    \*   cooldown   self.detection_cooldown
    \*   log        the access events recorded: time, cooldown in force, identity
    \*   calls      results handled
    \*   arg        the last result handled: its identity, and when
    consumer

queue_vars == <<frame_queue, frame_count, process_every_n_frames, running, thread,
                wpc, frame, gui_pc, is_camera_running, calls, fate, dequeues,
                emissions, errors, skip_changed, saw_full, loops, inference,
                events, fps_deque>>
gallery_vars == <<person_database, store, mw_db, fp_db, gl_pc, load_todo, rf_pc, rf_query,
                  rf_it, rf_acc, rf_seen, rf_result, committed, rf_versions,
                  changes>>
match_vars == <<m_query, m_gallery, m_result, m_pc, m_both>>
box_vars == <<b_box, b_shape, b_scaled, b_kept, b_pc>>
tensor_vars == <<t_faces, t_worker, t_build, t_dialog, t_pft, t_pc>>
build_vars == <<g_pc, g_total, g_folders, g_person, g_todo, g_tried, g_embeddings, g_db, g_aborted,
                g_good>>
frame_vars == <<f_pc, f_left, f_regions, f_identity, f_confidence, f_emitted, f_error>>
timer_vars == <<timer>>
consumer_vars == <<consumer>>
pure_vars == <<match_vars, box_vars, tensor_vars, build_vars, frame_vars, timer_vars,
               consumer_vars>>
vars == <<queue_vars, gallery_vars, pure_vars>>

\* ------------------------------------------------------------------ Init
\* FrameProcessor.__init__ and AccessControlSystem.__init__
QueueInit ==
    /\ frame_queue = <<>>
    /\ frame_count = 0
    /\ process_every_n_frames = DefaultSkip
    /\ running = FALSE
    /\ thread = "idle"
    /\ wpc = "none"
    /\ frame = 0
    /\ gui_pc = "idle"
    /\ is_camera_running = FALSE
    /\ calls = 0
    /\ fate = [f \in Frames |-> "none"]
    /\ dequeues = [f \in Frames |-> 0]
    /\ emissions = [f \in Frames |-> 0]
    /\ errors = {}
    /\ skip_changed = FALSE
    /\ saw_full = FALSE
    /\ loops = 0
    /\ inference = {}
    /\ events = <<>>
    /\ fps_deque = <<>>

\* ------------------------------------------------- FrameProcessor.add_frame
\* self.frame_count += 1
NextFrameCount(n) == n + 1

\* the skip test on the count before the increment
SkipIntervalMet_Shifted(count, n) == (count - 1) % n = 0

\* if self.frame_count % self.process_every_n_frames == 0
SkipIntervalMet(count, n) == count % n = 0

\* a queue that counts as full one frame early
QueueFull_OffByOne(q) == Len(q) >= QueueMaxSize - 1

\* self.frame_queue.full()
QueueFull(q) == Len(q) >= QueueMaxSize

\* a timer that toggle_camera does not stop
TimerRuns_Always(on) == TRUE

\* main_window.py 1439 and 1161: toggle_camera stops the timer, and update_frame
\* returns at once unless self.is_camera_running
TimerRuns(on) == on

\* lines 50-51: count the frame, and go on only for every n-th one
add_frame_count ==
    /\ UNCHANGED <<gallery_vars, pure_vars>>
    /\ UNCHANGED <<loops, inference, events, fps_deque>>
    /\ gui_pc = "idle"
    /\ TimerRuns(is_camera_running)
    /\ calls < MaxFrames
    /\ calls' = calls + 1
    /\ frame_count' = NextFrameCount(frame_count)
    /\ IF SkipIntervalMet(frame_count', process_every_n_frames)
       THEN /\ gui_pc' = "af_full"
            /\ fate' = [fate EXCEPT ![calls'] = "pending"]
            /\ saw_full' = (Len(frame_queue) = QueueMaxSize)
       ELSE /\ gui_pc' = "idle"
            /\ fate' = [fate EXCEPT ![calls'] = "skipped"]
            /\ saw_full' = FALSE
    /\ UNCHANGED <<frame_queue, process_every_n_frames, running, thread, wpc, frame,
                   is_camera_running, dequeues, emissions, errors, skip_changed>>

\* add_frame without the full() test
WantsPut_NoFullTest(q) == TRUE

\* line 52: if not self.frame_queue.full()
WantsPut(q) == ~QueueFull(q)

add_frame_full ==
    /\ UNCHANGED <<gallery_vars, pure_vars>>
    /\ UNCHANGED <<loops, inference, events, fps_deque>>
    /\ gui_pc = "af_full"
    /\ IF WantsPut(frame_queue)
       THEN /\ gui_pc' = "af_put"
            /\ fate' = fate
            /\ saw_full' = saw_full
       ELSE /\ gui_pc' = "idle"
            /\ fate' = [fate EXCEPT ![calls] = "dropped"]
            /\ saw_full' = FALSE
    /\ UNCHANGED <<frame_queue, frame_count, process_every_n_frames, running, thread,
                   wpc, frame, is_camera_running, calls, dequeues, emissions, errors,
                   skip_changed>>

\* line 53: self.frame_queue.put(frame.copy()); Queue.put waits while the queue
\* is full
add_frame_put ==
    /\ UNCHANGED <<gallery_vars, pure_vars>>
    /\ UNCHANGED <<loops, inference, events, fps_deque>>
    /\ gui_pc = "af_put"
    /\ Len(frame_queue) < QueueMaxSize
    /\ frame_queue' = Append(frame_queue, calls)
    /\ fate' = [fate EXCEPT ![calls] = "accepted"]
    /\ gui_pc' = "idle"
    /\ saw_full' = FALSE
    /\ UNCHANGED <<frame_count, process_every_n_frames, running, thread, wpc, frame,
                   is_camera_running, calls, dequeues, emissions, errors,
                   skip_changed>>

\* --------------------------------------------- AccessControlSystem, GUI thread
\* a start that does not ask whether the worker runs
StartsWorker_Always(t) == TRUE

\* lines 1421-1422: if not self.frame_processor.isRunning(): self.frame_processor.start()
StartsWorker(t) == t # "running"

\* toggle_camera: start the worker unless it runs, then the timer; or stop the
\* timer and leave the worker running
toggle_camera ==
    /\ UNCHANGED <<gallery_vars, pure_vars>>
    /\ UNCHANGED <<inference, events, fps_deque>>
    /\ gui_pc = "idle"
    /\ IF ~is_camera_running
       THEN /\ is_camera_running' = TRUE
            /\ IF StartsWorker(thread)
               THEN thread' = "running" /\ wpc' = "run" /\ loops' = loops + 1
               ELSE UNCHANGED <<thread, wpc, loops>>
       ELSE /\ is_camera_running' = FALSE
            /\ UNCHANGED <<thread, wpc, loops>>
    /\ UNCHANGED <<frame_queue, frame_count, process_every_n_frames, running, frame,
                   gui_pc, calls, fate, dequeues, emissions, errors, skip_changed,
                   saw_full>>

\* show_settings: self.frame_processor.process_every_n_frames = ...
update_settings ==
    /\ UNCHANGED <<gallery_vars, pure_vars>>
    /\ UNCHANGED <<loops, inference, events, fps_deque>>
    /\ gui_pc = "idle"
    /\ \E n \in SkipValues :
          /\ n # process_every_n_frames
          /\ process_every_n_frames' = n
    /\ skip_changed' = (skip_changed \/ calls > 0)
    /\ UNCHANGED <<frame_queue, frame_count, running, thread, wpc, frame, gui_pc,
                   is_camera_running, calls, fate, dequeues, emissions, errors,
                   saw_full>>

\* closeEvent -> FrameProcessor.stop, line 253: self.running = False
stop_flag ==
    /\ UNCHANGED <<gallery_vars, pure_vars>>
    /\ UNCHANGED <<loops, inference, events, fps_deque>>
    /\ gui_pc = "idle"
    /\ running' = FALSE
    /\ gui_pc' = "stop_wait"
    /\ UNCHANGED <<frame_queue, frame_count, process_every_n_frames, thread, wpc,
                   frame, is_camera_running, calls, fate, dequeues, emissions,
                   errors, skip_changed, saw_full>>

\* a wait() that returns only for a thread that has run and finished
WaitReturns_OnlyFinished(t) == t = "finished"

\* QThread.wait(): returns once the thread is not running (finished, or never
\* started)
WaitReturns(t) == t # "running"

\* FrameProcessor.stop, line 254: self.wait(); closeEvent then accepts the event
stop_wait ==
    /\ UNCHANGED <<gallery_vars, pure_vars>>
    /\ UNCHANGED <<loops, inference, events, fps_deque>>
    /\ gui_pc = "stop_wait"
    /\ WaitReturns(thread)
    /\ gui_pc' = "closed"
    /\ UNCHANGED <<frame_queue, frame_count, process_every_n_frames, running, thread,
                   wpc, frame, is_camera_running, calls, fate, dequeues, emissions,
                   errors, skip_changed, saw_full>>

\* ------------------------------------------------------ FrameProcessor.run
\* line 57: self.running = True
run_begin ==
    /\ UNCHANGED <<gallery_vars, pure_vars>>
    /\ UNCHANGED <<loops, inference, events, fps_deque>>
    /\ wpc = "run"
    /\ running' = TRUE
    /\ wpc' = "loop"
    /\ UNCHANGED <<frame_queue, frame_count, process_every_n_frames, thread, frame,
                   gui_pc, is_camera_running, calls, fate, dequeues, emissions,
                   errors, skip_changed, saw_full>>

\* line 58: while self.running
run_loop ==
    /\ UNCHANGED <<gallery_vars, pure_vars>>
    /\ UNCHANGED <<inference, events, fps_deque>>
    /\ wpc = "loop"
    /\ IF running
       THEN wpc' = "test_empty" /\ thread' = thread /\ loops' = loops
       ELSE wpc' = "none" /\ thread' = "finished" /\ loops' = loops - 1
    /\ UNCHANGED <<frame_queue, frame_count, process_every_n_frames, running, frame,
                   gui_pc, is_camera_running, calls, fate, dequeues, emissions,
                   errors, skip_changed, saw_full>>

\* line 59: if not self.frame_queue.empty()
run_test_empty ==
    /\ UNCHANGED <<gallery_vars, pure_vars>>
    /\ UNCHANGED <<loops, inference, events, fps_deque>>
    /\ wpc = "test_empty"
    /\ wpc' = IF Len(frame_queue) > 0 THEN "get" ELSE "sleep"
    /\ UNCHANGED <<frame_queue, frame_count, process_every_n_frames, running, thread,
                   frame, gui_pc, is_camera_running, calls, fate, dequeues,
                   emissions, errors, skip_changed, saw_full>>

\* line 206: time.sleep(0.01)
run_sleep ==
    /\ UNCHANGED <<gallery_vars, pure_vars>>
    /\ UNCHANGED <<loops, inference, events, fps_deque>>
    /\ wpc = "sleep"
    /\ wpc' = "loop"
    /\ UNCHANGED <<frame_queue, frame_count, process_every_n_frames, running, thread,
                   frame, gui_pc, is_camera_running, calls, fate, dequeues,
                   emissions, errors, skip_changed, saw_full>>

\* a get() that leaves the frame in the queue
QueueAfterGet_Peek(q) == q

\* Queue.get(): the queue once its oldest frame is taken
QueueAfterGet(q) == Tail(q)

\* line 62: frame = self.frame_queue.get(); Queue.get waits while the queue is
\* empty
run_get ==
    /\ UNCHANGED <<gallery_vars, pure_vars>>
    /\ UNCHANGED <<loops, inference, events, fps_deque>>
    /\ wpc = "get"
    /\ Len(frame_queue) > 0
    /\ frame' = Head(frame_queue)
    /\ frame_queue' = QueueAfterGet(frame_queue)
    /\ dequeues' = [dequeues EXCEPT ![frame'] = @ + 1]
    /\ wpc' = "process"
    /\ UNCHANGED <<frame_count, process_every_n_frames, running, thread, gui_pc,
                   is_camera_running, calls, fate, emissions, errors, skip_changed,
                   saw_full>>

\* an exception that leaves the loop
AfterException_Terminates == "none"

\* where run() goes on after "except Exception" (lines 201-203)
AfterException == "loop"

\* lines 181-185: self.fps_deque.append(fps), a deque(maxlen=30)
FpsAppend(d, f) ==
    LET all == Append(d, f)
    IN IF Len(all) > FpsWindow THEN Tail(all) ELSE all

\* lines 64-196: resize, the person detector, the boxes, the FPS stamp.  The
\* face detector, the embedder and the matcher run inside the inner try and
\* what they raise ends only their box; cv2.resize, self.yolo(...) and the box
\* arithmetic run outside it, and what they raise leaves the outer try.
run_process ==
    /\ UNCHANGED <<gallery_vars, pure_vars>>
    /\ UNCHANGED <<events>>
    /\ wpc = "process"
    /\ inference' = inference \cup {<<"worker", "frame">>}
    /\ \/ /\ wpc' = "emit"
          /\ errors' = errors
          /\ thread' = thread
          /\ frame' = frame
          /\ fps_deque' = FpsAppend(fps_deque, frame)
          /\ loops' = loops
       \/ /\ wpc' = AfterException
          /\ errors' = errors \cup {frame}
          /\ thread' = IF AfterException = "none" THEN "finished" ELSE thread
          /\ frame' = 0
          /\ fps_deque' = fps_deque
          /\ loops' = IF AfterException = "none" THEN loops - 1 ELSE loops
    /\ UNCHANGED <<frame_queue, frame_count, process_every_n_frames, running,
                   gui_pc, is_camera_running, calls, fate, dequeues, emissions,
                   skip_changed, saw_full>>

\* an emit that waits until the previous result has been handled
EmitReturns_Blocking(ev) == ev = <<>>

\* main_window.py 115: frame_processed.connect(self.on_frame_processed) between
\* two threads is a queued connection: emit posts the call and returns
EmitReturns(ev) == TRUE

\* line 199: self.frame_processed.emit(...), a queued signal to the GUI thread
run_emit ==
    /\ UNCHANGED <<gallery_vars, pure_vars>>
    /\ UNCHANGED <<loops, inference, fps_deque>>
    /\ wpc = "emit"
    /\ EmitReturns(events)
    /\ events' = Append(events, frame)
    /\ emissions' = [emissions EXCEPT ![frame] = @ + 1]
    /\ wpc' = "loop"
    /\ frame' = 0
    /\ UNCHANGED <<frame_queue, frame_count, process_every_n_frames, running, thread,
                   gui_pc, is_camera_running, calls, fate, dequeues, errors,
                   skip_changed, saw_full>>

\* the GUI event loop takes the oldest posted frame_processed signal and runs
\* on_frame_processed with it
deliver_result ==
    /\ UNCHANGED <<gallery_vars, pure_vars>>
    /\ UNCHANGED <<loops, inference, fps_deque>>
    /\ gui_pc = "idle"
    /\ events # <<>>
    /\ events' = Tail(events)
    /\ UNCHANGED <<frame_queue, frame_count, process_every_n_frames, running, thread,
                   wpc, frame, gui_pc, is_camera_running, calls, fate, dequeues,
                   emissions, errors, skip_changed, saw_full>>

\* reload_database -> PersonDatabase.load_database, database.py 126 and 144:
\* self.mtcnn and self.facenet run on every image of the store, on the thread
\* that called, the GUI thread
load_database_models ==
    /\ UNCHANGED <<gallery_vars, pure_vars>>
    /\ UNCHANGED <<loops, events, fps_deque>>
    /\ gui_pc = "idle"
    /\ inference' = inference \cup {<<"gui", "gallery">>}
    /\ UNCHANGED <<frame_queue, frame_count, process_every_n_frames, running, thread,
                   wpc, frame, gui_pc, is_camera_running, calls, fate, dequeues,
                   emissions, errors, skip_changed, saw_full>>

Worker == run_begin \/ run_loop \/ run_test_empty \/ run_sleep \/ run_get
          \/ run_process \/ run_emit

\* ------------------------------------------------- the gallery, a Python dict
\* PersonDatabase.person_database is one dict, "D", made in __init__ and never
\* replaced: load_database clears and refills it and returns it, and both
\* AccessControlSystem.person_database and FrameProcessor.person_database name
\* it.  "E" is the empty dict of reload_database line 482.
\* person_database is D's entry table: a person per slot, 0 for the hole a
\* deletion leaves.
Hole == 0

RECURSIVE Live(_)
\* the keys of the dict in iteration order
Live(table) ==
    IF table = <<>> THEN <<>>
    ELSE IF Head(table) = Hole THEN Live(Tail(table))
         ELSE <<Head(table)>> \o Live(Tail(table))

\* len(dict)
Used(table) == Len(Live(table))

\* the mean embedding load_database stores for a person
EmbeddingOf(p) == Point(p)

\* self.person_database[person] = {'embeddings': mean_embedding, 'data': person_data}
DictSet(table, p) ==
    IF \E i \in 1..Len(table) : table[i] = p THEN table ELSE Append(table, p)

\* del self.person_database[person_name]
DictDel(table, p) == [i \in 1..Len(table) |-> IF table[i] = p THEN Hole ELSE table[i]]

\* self.person_database.clear()
DictClear(table) == <<>>

\* the dict a name refers to
Deref(ref, table) == IF ref = "D" THEN table ELSE <<>>

RECURSIVE Sorted(_)
\* os.listdir order: a fixed order of the store's persons
Sorted(S) ==
    IF S = {} THEN <<>>
    ELSE LET m == CHOOSE x \in S : \A y \in S : x <= y
         IN  <<m>> \o Sorted(S \ {m})

GalleryInit ==
    /\ store \in SUBSET Persons
    /\ person_database = Sorted(store)
    /\ committed = Sorted(store)
    /\ mw_db = "D"
    /\ fp_db = "D"
    /\ gl_pc = "idle"
    /\ load_todo = <<>>
    /\ rf_pc = "idle"
    /\ rf_query = Point(0)
    /\ rf_it = [pos |-> 1, used |-> 0, len |-> 0]
    /\ rf_acc = MatchInit
    /\ rf_seen = <<>>
    /\ rf_result = <<None, 0>>
    /\ rf_versions = {}
    /\ changes = 0

\* a complete gallery is current from now on
Commit(table) ==
    /\ committed' = Live(table)
    /\ rf_versions' = IF rf_pc = "idle" THEN rf_versions
                      ELSE rf_versions \cup {Live(table)}

\* RegistroPersonaDialog accepted: the person's folder is in the store, and
\* show_registro_persona goes on to reload_database
register_person ==
    /\ UNCHANGED <<queue_vars, pure_vars>>
    /\ gl_pc = "idle"
    /\ changes < MaxChanges
    /\ changes' = changes + 1
    /\ \E p \in Persons \ store : store' = store \cup {p}
    /\ gl_pc' = "reload"
    /\ UNCHANGED <<person_database, mw_db, fp_db, load_todo, rf_pc, rf_query, rf_it,
                   rf_acc, rf_seen, rf_result, committed, rf_versions>>

\* reload_database, lines 479-482: self.person_database = {}
reload_database ==
    /\ UNCHANGED <<queue_vars, pure_vars>>
    /\ \/ gl_pc = "reload" /\ changes' = changes
       \/ gl_pc = "idle" /\ changes < MaxChanges /\ changes' = changes + 1
    /\ mw_db' = "E"
    /\ gl_pc' = "clear"
    /\ UNCHANGED <<person_database, store, fp_db, load_todo, rf_pc, rf_query, rf_it,
                   rf_acc, rf_seen, rf_result, committed, rf_versions>>

\* load_database, line 42: self.person_database.clear(), then the scan of the
\* store
load_clear ==
    /\ changes' = changes
    /\ UNCHANGED <<queue_vars, pure_vars>>
    /\ gl_pc = "clear"
    /\ person_database' = DictClear(person_database)
    /\ load_todo' = Sorted(store)
    /\ gl_pc' = "load"
    /\ UNCHANGED <<store, mw_db, fp_db, rf_pc, rf_query, rf_it, rf_acc, rf_seen,
                   rf_result, committed, rf_versions>>

\* load_database, lines 84-164: one person embedded and stored
load_add ==
    /\ changes' = changes
    /\ UNCHANGED <<queue_vars, pure_vars>>
    /\ gl_pc = "load"
    /\ load_todo # <<>>
    /\ person_database' = DictSet(person_database, Head(load_todo))
    /\ load_todo' = Tail(load_todo)
    /\ UNCHANGED <<store, mw_db, fp_db, gl_pc, rf_pc, rf_query, rf_it, rf_acc,
                   rf_seen, rf_result, committed, rf_versions>>

\* load_database returns the dict (line 183); reload_database, lines 485-489:
\* self.person_database = ..., self.frame_processor.person_database = ...
load_return ==
    /\ changes' = changes
    /\ UNCHANGED <<queue_vars, pure_vars>>
    /\ gl_pc = "load"
    /\ load_todo = <<>>
    /\ mw_db' = "D"
    /\ fp_db' = mw_db'
    /\ Commit(person_database)
    /\ gl_pc' = "idle"
    /\ UNCHANGED <<person_database, store, load_todo, rf_pc, rf_query, rf_it, rf_acc,
                   rf_seen, rf_result>>

\* delete_selected_person, lines 1134-1147
delete_selected_person ==
    /\ UNCHANGED <<queue_vars, pure_vars>>
    /\ gl_pc = "idle"
    /\ changes < MaxChanges
    /\ changes' = changes + 1
    /\ \E p \in Persons :
          /\ \E i \in 1..Len(Deref(mw_db, person_database)) :
                Deref(mw_db, person_database)[i] = p
          /\ store' = store \ {p}
          /\ person_database' = DictDel(person_database, p)
    /\ fp_db' = mw_db
    /\ Commit(person_database')
    /\ UNCHANGED <<mw_db, gl_pc, load_todo, rf_pc, rf_query, rf_it, rf_acc, rf_seen,
                   rf_result>>

\* ---------------------------------- FrameProcessor.recognize_face, stepwise
\* the embeddings the worker asks about: the nearest and the farthest point
WalkQueries == {Point(0), Point(MaxStep)}

\* the worker calls recognize_face for an embedded face (line 128)
rf_call ==
    /\ changes' = changes
    /\ UNCHANGED <<queue_vars, pure_vars>>
    /\ rf_pc = "idle"
    /\ \E q \in WalkQueries : rf_query' = q
    /\ rf_acc' = MatchInit
    /\ rf_seen' = <<>>
    /\ rf_versions' = {committed}
    /\ rf_pc' = "test"
    /\ UNCHANGED <<person_database, store, mw_db, fp_db, gl_pc, load_todo, rf_it,
                   rf_result, committed>>

\* line 224: if not self.person_database: return None, 0.0
rf_test ==
    /\ changes' = changes
    /\ UNCHANGED <<queue_vars, pure_vars>>
    /\ rf_pc = "test"
    /\ IF Used(Deref(fp_db, person_database)) = 0
       THEN rf_result' = <<None, 0>> /\ rf_pc' = "done"
       ELSE rf_result' = rf_result /\ rf_pc' = "iter"
    /\ UNCHANGED <<person_database, store, mw_db, fp_db, gl_pc, load_todo, rf_query,
                   rf_it, rf_acc, rf_seen, committed, rf_versions>>

\* line 227: self.person_database.items() and its iterator
rf_iter ==
    /\ changes' = changes
    /\ UNCHANGED <<queue_vars, pure_vars>>
    /\ rf_pc = "iter"
    /\ rf_it' = [pos |-> 1,
                 used |-> Used(Deref(fp_db, person_database)),
                 len |-> Used(Deref(fp_db, person_database))]
    /\ rf_pc' = "next"
    /\ UNCHANGED <<person_database, store, mw_db, fp_db, gl_pc, load_todo, rf_query,
                   rf_acc, rf_seen, rf_result, committed, rf_versions>>

\* the first slot at or after pos that holds an entry; Len + 1 when none does
RECURSIVE NextSlot(_, _)
NextSlot(table, pos) ==
    IF pos > Len(table) THEN pos
    ELSE IF table[pos] # Hole THEN pos ELSE NextSlot(table, pos + 1)

\* the dict iterator's next(): "changed", "stop" or the slot it yields.
\* CPython raises RuntimeError when the dict's size is not the one the iterator
\* was made for, or when it finds an entry after having yielded that many.
IterNext(table, it) ==
    IF Used(table) # it.used THEN "changed"
    ELSE IF NextSlot(table, it.pos) > Len(table) THEN "stop"
    ELSE IF it.len = 0 THEN "changed"
    ELSE "yield"

\* the entry load_database stores for a person.  The reference images of the
\* last person all hold two faces: its mean embedding has twice the length and
\* the subtraction of line 232 raises.
KindOf(p) == IF p = MaxPersons THEN "bad" ELSE "ok"
StoredEntry(p) == Entry(p, KindOf(p), EmbeddingOf(p))

\* a recognize_face without its outer try
AfterIterationError_Raises == "raised"

\* lines 247-249: except Exception: return None, 0.0
AfterIterationError == "done"

\* lines 227-249: one turn of the loop, the end of the loop, or the
\* RuntimeError caught at line 247
rf_next ==
    /\ changes' = changes
    /\ UNCHANGED <<queue_vars, pure_vars>>
    /\ rf_pc = "next"
    /\ LET table == Deref(fp_db, person_database)
           what == IterNext(table, rf_it)
           slot == NextSlot(table, rf_it.pos)
       IN  CASE what = "changed" ->
                  /\ rf_result' = <<None, 0>>
                  /\ rf_pc' = AfterIterationError
                  /\ UNCHANGED <<rf_it, rf_acc, rf_seen>>
             [] what = "stop" ->
                  /\ rf_result' = MatchFinish(rf_acc, Threshold)
                  /\ rf_pc' = "done"
                  /\ UNCHANGED <<rf_it, rf_acc, rf_seen>>
             [] OTHER ->
                  /\ rf_acc' = MatchStep(rf_acc, rf_query, StoredEntry(table[slot]),
                                         Threshold)
                  /\ rf_seen' = Append(rf_seen, table[slot])
                  /\ rf_it' = [rf_it EXCEPT !.pos = slot + 1, !.len = @ - 1]
                  /\ UNCHANGED <<rf_result, rf_pc>>
    /\ UNCHANGED <<person_database, store, mw_db, fp_db, gl_pc, load_todo, rf_query,
                   committed, rf_versions>>

\* the call has returned to run()
rf_return ==
    /\ UNCHANGED <<queue_vars, pure_vars>>
    /\ rf_pc = "done"
    /\ rf_pc' = "idle"
    /\ rf_query' = Point(0)
    /\ rf_it' = [pos |-> 1, used |-> 0, len |-> 0]
    /\ rf_acc' = MatchInit
    /\ rf_seen' = <<>>
    /\ rf_result' = <<None, 0>>
    /\ rf_versions' = {}
    /\ UNCHANGED <<person_database, store, mw_db, fp_db, gl_pc, load_todo, committed,
                   changes>>

\* ------------------------------------------------ the matcher as a function
\* the galleries: at most MaxGallery entries under distinct keys
RECURSIVE GalleriesOfLen(_)
GalleriesOfLen(n) ==
    IF n = 0 THEN {<<>>}
    ELSE {Append(g, e) :
            g \in GalleriesOfLen(n - 1),
            e \in {Entry(p, "ok", x) : p \in Persons, x \in Points}
                  \cup {Entry(p, k, Point(0)) : p \in Persons, k \in {"nokey", "bad"}}}

DistinctKeys(g) == \A i, j \in 1..Len(g) : i # j => g[i].person # g[j].person

Galleries == UNION {{g \in GalleriesOfLen(n) : DistinctKeys(g)} : n \in 0..MaxGallery}

MatchIdle ==
    /\ m_query = Point(0)
    /\ m_gallery = <<>>
    /\ m_result = <<None, 0>>
    /\ m_pc = "idle"
    /\ m_both = <<>>

MatchInputs ==
    /\ m_query \in Points
    /\ m_gallery \in Galleries
    /\ m_result = <<None, 0>>
    /\ m_pc = "input"
    /\ m_both = <<>>

\* FrameProcessor.recognize_face(m_query) with m_gallery installed
recognize_face ==
    /\ UNCHANGED <<queue_vars, gallery_vars, box_vars, tensor_vars, build_vars, frame_vars,
                   timer_vars, consumer_vars>>
    /\ m_pc = "input"
    /\ m_result' = RecognizeFace(m_query, m_gallery, Threshold)
    /\ m_pc' = "done"
    /\ UNCHANGED <<m_query, m_gallery, m_both>>

\* PersonRecognizer.recognize_face, lines 63-75: one pass of the loop body
PersonRecognizer_Step(acc, face_embedding, data, threshold) ==
    IF data.kind = "nokey"
    THEN acc
    ELSE IF data.kind = "bad"
    THEN acc
    ELSE LET dist == Norm(VecSub(face_embedding, data.embeddings))
         IN  IF dist < acc.min_dist
             THEN [min_dist |-> dist, identity |-> data.data,
                   confidence |-> Max(0, ((threshold - dist) * 100) \div threshold)]
             ELSE acc

RECURSIVE PersonRecognizer_Loop(_, _, _, _)
PersonRecognizer_Loop(acc, face_embedding, database, threshold) ==
    IF database = <<>>
    THEN acc
    ELSE PersonRecognizer_Loop(
             PersonRecognizer_Step(acc, face_embedding, Head(database), threshold),
             face_embedding, Tail(database), threshold)

\* PersonRecognizer.recognize_face(face_embedding, database, threshold)
PersonRecognizer_RecognizeFace(face_embedding, database, threshold) ==
    IF database = <<>>
    THEN <<None, 0>>
    ELSE LET acc == PersonRecognizer_Loop([min_dist |-> Inf, identity |-> None,
                                           confidence |-> 0],
                                          face_embedding, database, threshold)
         IN  IF acc.min_dist > threshold
             THEN <<None, 0>>
             ELSE <<acc.identity, acc.confidence>>

\* the thresholds tried: half the default, the default, and one step of the
\* distances more
Thresholds == {Threshold \div 2, Threshold, Threshold + Norm(Point(1))}

\* both matchers on m_query and m_gallery, under each threshold
person_recognizer_recognize_face ==
    /\ UNCHANGED <<queue_vars, gallery_vars, box_vars, tensor_vars, build_vars, frame_vars,
                   timer_vars, consumer_vars>>
    /\ m_pc = "input"
    /\ m_both' = [t \in Thresholds |->
                    [fp |-> RecognizeFace(m_query, m_gallery, t),
                     pr |-> PersonRecognizer_RecognizeFace(m_query, m_gallery, t)]]
    /\ m_pc' = "compared"
    /\ UNCHANGED <<m_query, m_gallery, m_result>>

\* ------------------------------------------------------- rescale and clamp
Min(a, b) == IF a <= b THEN a ELSE b

\* int(x): the float x = a / b cut towards zero (b > 0)
IntOf(a, b) == IF a >= 0 THEN a \div b ELSE -((-a) \div b)

\* int(x1 * scale_x) with scale_x = orig / small
ScaleCoord(x, orig, small) == IntOf(x * orig, small)

\* x1, x2 = max(0, x1), min(width, x2); y1, y2 = max(0, y1), min(height, y2)
ClampBox(box, shape) ==
    <<Max(0, box[1]), Max(0, box[2]), Min(shape[2], box[3]), Min(shape[1], box[4])>>

\* lines 80-86 of run(), lines 63-69 of scale_detections: the box at the
\* original resolution, clamped to the frame
ScaleAndClamp(box, shape, small) ==
    ClampBox(<<ScaleCoord(box[1], shape[2], small[1]),
               ScaleCoord(box[2], shape[1], small[2]),
               ScaleCoord(box[3], shape[2], small[1]),
               ScaleCoord(box[4], shape[1], small[2])>>, shape)

\* a test that lets every box pass
HasArea_Always(box) == TRUE

\* (x2 - x1) > 0 and (y2 - y1) > 0
HasArea(box) == (box[3] - box[1]) > 0 /\ (box[4] - box[2]) > 0

\* face_img = frame[y1:y2, x1:x2]; face_img.size (3 channels).  A slice takes
\* the rows and columns the frame has.
CropSize(box, shape) ==
    LET rows == Max(0, Min(shape[1], box[4]) - Min(shape[1], Max(0, box[2])))
        cols == Max(0, Min(shape[2], box[3]) - Min(shape[2], Max(0, box[1])))
    IN  rows * cols * 3

\* lines 97: if (x2 - x1) < 60 or (y2 - y1) < 60: continue
BigEnough(box) == ~((box[3] - box[1]) < MinFace \/ (box[4] - box[2]) < MinFace)

\* YoloDetector.scale_detections on results holding the one box
ScaleDetections(box, shape) ==
    LET b == ScaleAndClamp(box, shape, <<SmallWidth, SmallHeight>>)
    IN  IF HasArea(b) THEN <<b>> ELSE <<>>

\* FrameProcessor.run, lines 80-98: the box the loop body goes on with, or <<>>
\* when it takes one of the three "continue"
RunBox(box, shape) ==
    LET b == ScaleAndClamp(box, shape, <<SmallWidth, SmallHeight>>)
    IN  IF ~HasArea(b) THEN <<>>
        ELSE IF CropSize(b, shape) = 0 THEN <<>>
        ELSE IF ~BigEnough(b) THEN <<>>
        ELSE b

XStep == SmallWidth \div 5 + 1
YStep == SmallHeight \div 5 + 1
XCoords == {(k - 1) * XStep : k \in 0..MaxCoord}
YCoords == {(k - 1) * YStep : k \in 0..MaxCoord}
DetectorBoxes == XCoords \X YCoords \X XCoords \X YCoords
FrameShapes ==
    {<<(SmallHeight * k) \div 2, (SmallWidth * j) \div 2>> : k, j \in 1..MaxScale}

BoxIdle ==
    /\ b_box = <<0, 0, 0, 0>>
    /\ b_shape = <<SmallHeight, SmallWidth>>
    /\ b_scaled = <<>>
    /\ b_kept = <<>>
    /\ b_pc = "idle"

BoxInputs ==
    /\ b_box \in DetectorBoxes
    /\ b_shape \in FrameShapes
    /\ b_scaled = <<>>
    /\ b_kept = <<>>
    /\ b_pc = "input"

\* YoloDetector.scale_detections(results, frame.shape[:2])
scale_detections ==
    /\ UNCHANGED <<queue_vars, gallery_vars, match_vars, tensor_vars, build_vars,
                   frame_vars,
                   timer_vars, consumer_vars>>
    /\ b_pc = "input"
    /\ b_scaled' = ScaleDetections(b_box, b_shape)
    /\ b_pc' = "scaled"
    /\ UNCHANGED <<b_box, b_shape, b_kept>>

\* FrameProcessor.run, lines 80-98, on the same box
run_box ==
    /\ UNCHANGED <<queue_vars, gallery_vars, match_vars, tensor_vars, build_vars,
                   frame_vars,
                   timer_vars, consumer_vars>>
    /\ b_pc = "scaled"
    /\ b_kept' = RunBox(b_box, b_shape)
    /\ b_pc' = "done"
    /\ UNCHANGED <<b_box, b_shape, b_scaled>>

\* ------------------------------------------------ face tensor normalization
\* What self.mtcnn(rgb) can hand over: None, a list, or a tensor.  A tensor is
\* its shape and the faces it holds, in the order of its leading dimensions; a
\* face is named by its detection probability in percent.
PyNone == [kind |-> "none", shape |-> <<>>, faces |-> <<>>, items |-> <<>>]
Tensor(shape, faces) == [kind |-> "tensor", shape |-> shape, faces |-> faces, items |-> <<>>]
PyList(items) == [kind |-> "list", shape |-> <<>>, faces |-> <<>>, items |-> items]

\* one face crop: 3 x 160 x 160
CHW == <<3, 160, 160>>

\* tensor.squeeze(0): drops dimension 0 when its size is 1, else changes nothing
Squeeze0(t) ==
    IF Len(t.shape) > 0 /\ t.shape[1] = 1 THEN Tensor(Tail(t.shape), t.faces) ELSE t

\* tensor.unsqueeze(0)
Unsqueeze0(t) == Tensor(<<1>> \o t.shape, t.faces)

\* the three tests on face_tensor.ndim, one after the other
NormalizeRank(t) ==
    LET a == IF Len(t.shape) = 5 THEN Squeeze0(t) ELSE t
        b == IF Len(a.shape) = 4 THEN Squeeze0(a) ELSE a
    IN  IF Len(b.shape) = 3 THEN Unsqueeze0(b) ELSE b

\* if isinstance(faces, list) and faces: face_tensor = faces[0]
\* else: face_tensor = faces
FirstOf(faces) == IF faces.kind = "list" /\ Len(faces.items) > 0 THEN faces.items[1] ELSE faces

\* self.facenet(face_tensor): InceptionResnetV1 takes a batch N x 3 x 160 x 160
\* and raises on every other shape
FacenetTakes(t) == t.kind = "tensor" /\ Len(t.shape) = 4 /\ Tail(t.shape) = CHW

\* what a consumer did with the detector output: the tensor it passed to the
\* embedding network (PyNone: none), the faces of the embedding it got
\* (embedding.cpu().numpy().flatten() has 512 numbers per face), and whether an
\* exception ended the step
Outcome(fed, raised) ==
    [fed |-> fed,
     emb |-> IF fed # PyNone /\ FacenetTakes(fed) THEN fed.faces ELSE <<>>,
     raised |-> raised \/ (fed # PyNone /\ ~FacenetTakes(fed))]

\* if face_tensor.size(0) == 1
SizeTest(t) == t.shape[1] = 1

\* FrameProcessor.run, lines 104-128 and 176-178
WorkerConsume(faces) ==
    IF faces = PyNone THEN Outcome(PyNone, FALSE)
    ELSE LET face_tensor == FirstOf(faces)
         IN  IF face_tensor = PyNone THEN Outcome(PyNone, FALSE)
             ELSE IF face_tensor.kind # "tensor" THEN Outcome(PyNone, TRUE)
             ELSE LET t == NormalizeRank(face_tensor)
                  IN  IF SizeTest(t) THEN Outcome(t, FALSE) ELSE Outcome(PyNone, FALSE)

\* the steps without the test on size(0): PersonDatabase.load_database, lines
\* 126-153, and RegistrationDialog, lines 218-248 and 865-887
BuildConsume(faces) ==
    IF faces = PyNone THEN Outcome(PyNone, FALSE)
    ELSE LET face_tensor == FirstOf(faces)
         IN  IF face_tensor = PyNone THEN Outcome(PyNone, FALSE)
             ELSE IF face_tensor.kind # "tensor" THEN Outcome(PyNone, TRUE)
             ELSE Outcome(NormalizeRank(face_tensor), FALSE)

DialogConsume(faces) == BuildConsume(faces)

\* FaceDetector.process_face_tensor: the tensor it returns, or PyNone
ProcessFaceTensor(faces) ==
    IF faces = PyNone THEN PyNone
    ELSE LET face_tensor == FirstOf(faces)
         IN  IF face_tensor = PyNone THEN PyNone
             ELSE IF face_tensor.kind # "tensor" THEN PyNone
             ELSE NormalizeRank(face_tensor)

\* the sequences of length n over S
RECURSIVE SeqsOfLen(_, _)
SeqsOfLen(S, n) ==
    IF n = 0 THEN {<<>>} ELSE {Append(q, x) : q \in SeqsOfLen(S, n - 1), x \in S}

RECURSIVE Product(_)
Product(q) == IF q = <<>> THEN 1 ELSE Head(q) * Product(Tail(q))

Leads == UNION {SeqsOfLen(1..MaxBatch, n) : n \in 0..MaxLead}

\* the faces of a tensor with the leading dimensions lead: the most probable
\* face, 99 percent, comes first or comes last
FacesOf(lead) ==
    LET n == Product(lead)
    IN  {[i \in 1..n |-> 100 - i], [i \in 1..n |-> 99 - n + i]}

\* the tensors: up to MaxLead leading dimensions before 3 x 160 x 160, and a
\* tensor of rank 2
Tensors ==
    UNION {{Tensor(lead \o CHW, fs) : fs \in FacesOf(lead)} : lead \in Leads}
    \cup {Tensor(Tail(CHW), <<99>>)}

DetectorOutputs ==
    {PyNone, PyList(<<>>), PyList(<<PyNone>>)}
    \cup Tensors \cup {PyList(<<t>>) : t \in Tensors}

TensorIdle ==
    /\ t_faces = PyNone
    /\ t_worker = Outcome(PyNone, FALSE)
    /\ t_build = Outcome(PyNone, FALSE)
    /\ t_dialog = Outcome(PyNone, FALSE)
    /\ t_pft = PyNone
    /\ t_pc = "idle"

TensorInputs ==
    /\ t_faces \in DetectorOutputs
    /\ t_worker = Outcome(PyNone, FALSE)
    /\ t_build = Outcome(PyNone, FALSE)
    /\ t_dialog = Outcome(PyNone, FALSE)
    /\ t_pft = PyNone
    /\ t_pc = "input"

\* FrameProcessor.run, lines 104-128, on t_faces
worker_consume ==
    /\ UNCHANGED <<queue_vars, gallery_vars, match_vars, box_vars, build_vars,
                   frame_vars,
                   timer_vars, consumer_vars>>
    /\ t_pc = "input"
    /\ t_worker' = WorkerConsume(t_faces)
    /\ t_pc' = "worker"
    /\ UNCHANGED <<t_faces, t_build, t_dialog, t_pft>>

\* PersonDatabase.load_database, lines 126-149, on t_faces
build_consume ==
    /\ UNCHANGED <<queue_vars, gallery_vars, match_vars, box_vars, build_vars,
                   frame_vars,
                   timer_vars, consumer_vars>>
    /\ t_pc = "worker"
    /\ t_build' = BuildConsume(t_faces)
    /\ t_pc' = "build"
    /\ UNCHANGED <<t_faces, t_worker, t_dialog, t_pft>>

\* RegistrationDialog, lines 218-247, on t_faces
dialog_consume ==
    /\ UNCHANGED <<queue_vars, gallery_vars, match_vars, box_vars, build_vars,
                   frame_vars,
                   timer_vars, consumer_vars>>
    /\ t_pc = "build"
    /\ t_dialog' = DialogConsume(t_faces)
    /\ t_pc' = "dialog"
    /\ UNCHANGED <<t_faces, t_worker, t_build, t_pft>>

\* FaceDetector.process_face_tensor(t_faces)
process_face_tensor ==
    /\ UNCHANGED <<queue_vars, gallery_vars, match_vars, box_vars, build_vars,
                   frame_vars,
                   timer_vars, consumer_vars>>
    /\ t_pc = "dialog"
    /\ t_pft' = ProcessFaceTensor(t_faces)
    /\ t_pc' = "done"
    /\ UNCHANGED <<t_faces, t_worker, t_build, t_dialog>>

\* ------------------------------------------ PersonDatabase.load_database
\* The embedding network gives one block of 512 numbers per face of the batch;
\* a block is one number here, a multiple of 60 so that the means are exact:
\* the face of probability 99 embeds to 60, that of 98 to 120.
EmbedFace(f) == (100 - f) * 60

\* embedding.cpu().numpy().flatten()
Flatten(faces) == [i \in 1..Len(faces) |-> EmbedFace(faces[i])]

\* the images of a reference folder, by what cv2.imread and the detector make
\* of them: unreadable, raising inside the try of line 113, or a detector
\* output (no face, one face, two faces)
OneFace(f) == Tensor(<<1>> \o CHW, <<f>>)
TwoFaces == Tensor(<<2>> \o CHW, <<99, 98>>)
ReferenceImages ==
    {[file |-> "unreadable", faces |-> PyNone], [file |-> "raises", faces |-> PyNone]}
    \cup {[file |-> "ok", faces |-> x] : x \in {PyNone, OneFace(99), OneFace(98), TwoFaces}}

\* lines 113-153 on one image: embeddings after it
AfterImage(embeddings, img) ==
    IF img.file # "ok" THEN embeddings
    ELSE LET out == BuildConsume(img.faces)
         IN  IF out.emb = <<>> THEN embeddings
             ELSE Append(embeddings, Flatten(out.emb))

\* np.mean(embeddings, axis=0) raises unless all embeddings have one length
Uniform(embeddings) ==
    \A i, j \in 1..Len(embeddings) : Len(embeddings[i]) = Len(embeddings[j])

RECURSIVE SumAt(_, _, _)
SumAt(embeddings, k, i) ==
    IF i = 0 THEN 0 ELSE embeddings[i][k] + SumAt(embeddings, k, i - 1)

\* np.mean divides by the number of embeddings in the list
MeanDivisor(embeddings) == Len(embeddings)

Mean(embeddings) ==
    [k \in 1..Len(embeddings[1]) |->
        SumAt(embeddings, k, Len(embeddings)) \div MeanDivisor(embeddings)]

\* self.person_database as the set of its entries
DbKeys(db) == {e.person : e \in db}
\* a store that keeps the entry a key already has
DbPut_KeepFirst(db, p, mean) ==
    IF p \in DbKeys(db) THEN db ELSE db \cup {[person |-> p, embeddings |-> mean]}

\* self.person_database[person] = {'embeddings': mean_embedding, ...}
DbPut(db, p, mean) ==
    {e \in db : e.person # p} \cup {[person |-> p, embeddings |-> mean]}

\* the names of the identity folders of a store in the order of the scan
\* (lines 78-90), faculty by faculty; two folders of one name lie in different
\* faculties.  The names are numbered as they first appear.
Folders(total) ==
    {fs \in SeqsOfLen(1..MaxNames, total) :
        \A i \in 1..total : \A n \in 1..(fs[i] - 1) : \E j \in 1..(i - 1) : fs[j] = n}

\* os.listdir gives the image files in no particular order; the folders tried
\* list them so that the embeddings come out as one face of 99, one face of
\* 98, two faces, with the images that give no embedding anywhere between
EmbeddingRank(e) == Len(e) * EmbedFace(0) + e[1]
ListedInOrder(embeddings, img) ==
    LET after == AfterImage(embeddings, img)
    IN  IF Len(after) = Len(embeddings) \/ Len(embeddings) = 0
        THEN TRUE
        ELSE EmbeddingRank(embeddings[Len(embeddings)]) <= EmbeddingRank(after[Len(after)])

\* what is kept of the embeddings of an identity folder: whether they have one
\* length, how many they are, and their sum
Summary(name, folder, embeddings) ==
    [person |-> name, folder |-> folder, uniform |-> Uniform(embeddings),
     count |-> Len(embeddings),
     sum |-> IF Uniform(embeddings)
             THEN [k \in 1..Len(embeddings[1]) |-> SumAt(embeddings, k, Len(embeddings))]
             ELSE <<>>]

BuildIdle ==
    /\ g_pc = "idle"
    /\ g_total = 0
    /\ g_folders = <<>>
    /\ g_person = 1
    /\ g_todo = 0
    /\ g_tried = 0
    /\ g_embeddings = <<>>
    /\ g_db = {}
    /\ g_aborted = FALSE
    /\ g_good = {}

BuildInputs ==
    /\ g_pc = "start"
    /\ g_total \in 0..MaxIdentities
    /\ g_folders \in Folders(g_total)
    /\ g_person = 1
    /\ g_todo = 0
    /\ g_tried = 0
    /\ g_embeddings = <<>>
    /\ g_db \in {{}, {[person |-> 1, embeddings |-> <<60>>]}}
    /\ g_aborted = FALSE
    /\ g_good = {}

\* lines 42-72: clear the dict, count the identity folders, return when there
\* are none
build_start ==
    /\ UNCHANGED <<queue_vars, gallery_vars, match_vars, box_vars, tensor_vars,
                   frame_vars,
                   timer_vars, consumer_vars>>
    /\ g_pc = "start"
    /\ g_db' = {}
    /\ g_pc' = IF g_total = 0 THEN "returned" ELSE "person"
    /\ UNCHANGED <<g_total, g_folders, g_person, g_todo, g_tried, g_embeddings, g_aborted, g_good>>

\* lines 84-101: the next identity folder and its info.json: read, or missing
\* (continue), or unreadable as JSON (the exception leaves the loops and is
\* caught at line 185)
build_person ==
    /\ UNCHANGED <<queue_vars, gallery_vars, match_vars, box_vars, tensor_vars,
                   frame_vars,
                   timer_vars, consumer_vars>>
    /\ g_pc = "person"
    /\ g_person <= g_total
    /\ \/ /\ g_pc' = "list"
          /\ UNCHANGED <<g_person, g_aborted>>
       \/ /\ g_pc' = "person"
          /\ g_person' = g_person + 1
          /\ UNCHANGED g_aborted
       \/ /\ g_pc' = "returned"
          /\ g_aborted' = TRUE
          /\ UNCHANGED g_person
    /\ UNCHANGED <<g_total, g_folders, g_todo, g_tried, g_embeddings, g_db, g_good>>

\* lines 104-109: embeddings = [], and the first ImageLimit image files
build_list ==
    /\ UNCHANGED <<queue_vars, gallery_vars, match_vars, box_vars, tensor_vars,
                   frame_vars,
                   timer_vars, consumer_vars>>
    /\ g_pc = "list"
    /\ \E files \in 0..MaxImages : g_todo' = Min(files, ImageLimit)
    /\ g_tried' = 0
    /\ g_embeddings' = <<>>
    /\ g_pc' = "images"
    /\ UNCHANGED <<g_total, g_folders, g_person, g_db, g_aborted, g_good>>

\* lines 111-153: one image file
build_image ==
    /\ UNCHANGED <<queue_vars, gallery_vars, match_vars, box_vars, tensor_vars,
                   frame_vars,
                   timer_vars, consumer_vars>>
    /\ g_pc = "images"
    /\ g_todo > 0
    /\ \E img \in ReferenceImages :
          /\ ListedInOrder(g_embeddings, img)
          /\ g_embeddings' = AfterImage(g_embeddings, img)
    /\ g_todo' = g_todo - 1
    /\ g_tried' = g_tried + 1
    /\ UNCHANGED <<g_pc, g_total, g_folders, g_person, g_db, g_aborted, g_good>>

\* lines 155-170: the mean embedding goes into the dict; an exception of
\* np.mean leaves the loops and is caught at line 185
build_store ==
    /\ UNCHANGED <<queue_vars, gallery_vars, match_vars, box_vars, tensor_vars,
                   frame_vars,
                   timer_vars, consumer_vars>>
    /\ g_pc = "images"
    /\ g_todo = 0
    /\ g_good' = IF g_embeddings # <<>>
                 THEN g_good \cup {Summary(g_folders[g_person], g_person, g_embeddings)}
                 ELSE g_good
    /\ IF g_embeddings # <<>> /\ ~Uniform(g_embeddings)
       THEN /\ g_pc' = "returned"
            /\ g_aborted' = TRUE
            /\ UNCHANGED <<g_db, g_person>>
       ELSE /\ g_db' = IF g_embeddings # <<>>
                       THEN DbPut(g_db, g_folders[g_person], Mean(g_embeddings))
                       ELSE g_db
            /\ g_person' = g_person + 1
            /\ g_pc' = "person"
            /\ UNCHANGED g_aborted
    /\ UNCHANGED <<g_total, g_folders, g_todo, g_tried, g_embeddings>>

\* lines 172-183: return self.person_database
build_return ==
    /\ UNCHANGED <<queue_vars, gallery_vars, match_vars, box_vars, tensor_vars,
                   frame_vars,
                   timer_vars, consumer_vars>>
    /\ g_pc = "person"
    /\ g_person > g_total
    /\ g_pc' = "returned"
    /\ UNCHANGED <<g_total, g_folders, g_person, g_todo, g_tried, g_embeddings, g_db, g_aborted,
                   g_good>>

\* ----------------------------------- FrameProcessor.run on one dequeued frame
\* the frame has the detection size; the detector boxes tried are one that is
\* kept and one without area
RegionShape == <<SmallHeight, SmallWidth>>
RegionBoxes == {<<0, 0, 2 * XStep, 2 * YStep>>, <<XStep, YStep, XStep, YStep>>}

\* the gallery of the worker while the frame is processed: two persons, the
\* second one beyond the threshold from every query that is near the first
RegionGallery == <<Entry(1, "ok", Point(0)), Entry(2, "ok", Point(MaxStep + 3))>>

\* what mtcnn returns for a region
RegionFaces == {PyNone, OneFace(99), TwoFaces}

\* the calls of lines 104-175 that can raise for a region: the face detector,
\* the embedding network, the matcher, the drawing of box and label
RegionSteps == {"mtcnn", "facenet", "recognize", "draw"}

\* an inner try that catches nothing
CaughtAt_Outer(step) == "outer"

\* the try of line 103 encloses lines 104-175: what a step raises is caught at
\* line 176 ("inner"), not at line 201 ("outer")
CaughtAt(step) == IF step \in RegionSteps THEN "inner" ELSE "outer"

\* a test that takes every identity
GoodMatch_Any(identity, confidence) == identity # None

\* line 131: if identity and confidence > 20
GoodMatch(identity, confidence) == identity # None /\ confidence > MinConfidence

\* lines 80-178 for one box: what became of the region, what recognize_face
\* returned for it (match), and detected_identity, detected_confidence after
\* it.  raises: the step that raises, or "none"; query: the embedding of the
\* face.
RegionResult(box, raises, faces, query, identity, confidence) ==
    LET same(what) == [region |-> what, match |-> <<None, 0>>,
                       identity |-> identity, confidence |-> confidence]
    IN  IF RunBox(box, RegionShape) = <<>> THEN same("dropped")
        ELSE IF raises = "mtcnn" THEN same("raised")
        ELSE IF WorkerConsume(faces).emb = <<>> THEN same("skipped")
        ELSE IF raises \in {"facenet", "recognize"} THEN same("raised")
        ELSE LET r == RecognizeFace(query, RegionGallery, Threshold)
                 what == IF raises = "draw" THEN "raised"
                         ELSE IF GoodMatch(r[1], r[2]) THEN "known" ELSE "unknown"
             IN  IF GoodMatch(r[1], r[2])
                 THEN [region |-> what, match |-> r,
                       identity |-> r[1], confidence |-> r[2]]
                 ELSE [region |-> what, match |-> r,
                       identity |-> identity, confidence |-> confidence]

FrameIdle ==
    /\ f_pc = "idle"
    /\ f_left = 0
    /\ f_regions = <<>>
    /\ f_identity = None
    /\ f_confidence = 0
    /\ f_emitted = <<>>
    /\ f_error = "none"

\* line 62: frame = self.frame_queue.get() has returned
FrameDequeued ==
    /\ f_pc = "resize"
    /\ f_left = 0
    /\ f_regions = <<>>
    /\ f_identity = None
    /\ f_confidence = 0
    /\ f_emitted = <<>>
    /\ f_error = "none"

\* line 65: cv2.resize(frame, (640, 480)); what it raises is caught at 201
frame_resize ==
    /\ UNCHANGED <<queue_vars, gallery_vars, match_vars, box_vars, tensor_vars,
                   build_vars,
                   timer_vars, consumer_vars>>
    /\ f_pc = "resize"
    /\ \/ f_pc' = "detect" /\ f_error' = f_error
       \/ f_pc' = "failed" /\ f_error' = "resize"
    /\ UNCHANGED <<f_left, f_regions, f_identity, f_confidence, f_emitted>>

\* lines 66-74: results = self.yolo(frame_small, classes=[0]); what the
\* detector raises is caught at line 201
frame_detect ==
    /\ UNCHANGED <<queue_vars, gallery_vars, match_vars, box_vars, tensor_vars,
                   build_vars,
                   timer_vars, consumer_vars>>
    /\ f_pc = "detect"
    /\ \/ /\ \E n \in 0..MaxBoxes : f_left' = n
          /\ f_pc' = "regions"
          /\ f_error' = f_error
       \/ /\ f_pc' = "failed"
          /\ f_error' = "detector"
          /\ f_left' = f_left
    /\ f_identity' = None
    /\ f_confidence' = 0
    /\ UNCHANGED <<f_regions, f_emitted>>

\* lines 78-178: the next box of the detector
frame_region ==
    /\ UNCHANGED <<queue_vars, gallery_vars, match_vars, box_vars, tensor_vars,
                   build_vars,
                   timer_vars, consumer_vars>>
    /\ f_pc = "regions"
    /\ f_left > 0
    /\ \E box \in RegionBoxes, raises \in RegionSteps \cup {"none"},
          faces \in RegionFaces, query \in Points :
          LET r == RegionResult(box, raises, faces, query, f_identity, f_confidence)
          IN  IF r.region = "raised" /\ CaughtAt(raises) = "outer"
              THEN /\ f_pc' = "failed"
                   /\ f_error' = "region"
                   /\ UNCHANGED <<f_left, f_regions>>
                   /\ f_identity' = r.identity
                   /\ f_confidence' = r.confidence
              ELSE /\ f_regions' = Append(f_regions, [region |-> r.region, match |-> r.match])
                   /\ f_identity' = r.identity
                   /\ f_confidence' = r.confidence
                   /\ f_left' = f_left - 1
                   /\ UNCHANGED <<f_pc, f_error>>
    /\ UNCHANGED f_emitted

\* lines 180-196: the FPS figure and the two stamps on display_frame; what
\* they raise is caught at line 201
frame_stamp ==
    /\ UNCHANGED <<queue_vars, gallery_vars, match_vars, box_vars, tensor_vars,
                   build_vars,
                   timer_vars, consumer_vars>>
    /\ f_pc = "regions"
    /\ f_left = 0
    /\ \/ f_pc' = "emit" /\ f_error' = f_error
       \/ f_pc' = "failed" /\ f_error' = "stamp"
    /\ UNCHANGED <<f_left, f_regions, f_identity, f_confidence, f_emitted>>

\* line 199: self.frame_processed.emit(display_frame, detected_identity,
\* detected_confidence)
frame_emit ==
    /\ UNCHANGED <<queue_vars, gallery_vars, match_vars, box_vars, tensor_vars,
                   build_vars,
                   timer_vars, consumer_vars>>
    /\ f_pc = "emit"
    /\ f_emitted' = <<[identity |-> f_identity, confidence |-> f_confidence,
                       regions |-> f_regions]>>
    /\ f_pc' = "done"
    /\ UNCHANGED <<f_left, f_regions, f_identity, f_confidence, f_error>>

\* ---------------------------------------------------------- specifications
GalleryIdle ==
    /\ store = Persons
    /\ person_database = Sorted(Persons)
    /\ committed = Sorted(Persons)
    /\ mw_db = "D"
    /\ fp_db = "D"
    /\ gl_pc = "idle"
    /\ load_todo = <<>>
    /\ rf_pc = "idle"
    /\ rf_query = Point(0)
    /\ rf_it = [pos |-> 1, used |-> 0, len |-> 0]
    /\ rf_acc = MatchInit
    /\ rf_seen = <<>>
    /\ rf_result = <<None, 0>>
    /\ rf_versions = {}
    /\ changes = 0

\* ------------------------------------------------------------ camera timer
\* The timer started by toggle_camera calls update_frame at every tick.  The
\* settings dialog writes one value N to self.process_every_n_frames and to
\* self.frame_processor.process_every_n_frames (lines 851 and 856); the
\* spinner offers 1..SpinnerMax.

TimerStart(n) ==
    [n |-> n, ticks |-> 0, mw_count |-> 0, fp_count |-> 0, reads |-> {},
     submitted |-> {}]

TimerIdle == timer = TimerStart(DefaultSkip)

\* the camera runs, the counters are those of construction, N is any value of
\* the spinner
TimerInputs == \E n \in 1..SpinnerMax : timer = TimerStart(n)

\* main_window.py 1165-1167: the window's own skip, before camera.read()
WindowSkips(count, n) == count % n # 0

\* update_frame, with the add_frame it calls at line 1172: the window counts
\* the tick and returns unless its count is a multiple of N; camera.read()
\* returns a frame; add_frame counts the frame and returns unless its count is
\* a multiple of N; the frame then goes on to the queue test of line 52.
update_frame ==
    /\ timer.ticks < MaxTicks
    /\ LET tick == timer.ticks + 1
           mw == timer.mw_count + 1
           fp == NextFrameCount(timer.fp_count)
       IN timer' =
            IF WindowSkips(mw, timer.n)
            THEN [timer EXCEPT !.ticks = tick, !.mw_count = mw]
            ELSE [timer EXCEPT
                    !.ticks = tick,
                    !.mw_count = mw,
                    !.reads = @ \cup {tick},
                    !.fp_count = fp,
                    !.submitted = IF SkipIntervalMet(fp, timer.n)
                                  THEN @ \cup {tick} ELSE @]
    /\ UNCHANGED <<queue_vars, gallery_vars, match_vars, box_vars, tensor_vars,
                   build_vars, frame_vars, consumer_vars>>

\* ------------------------------------------------------------- the consumer
\* on_frame_processed runs on the GUI thread for every result; time.time() is
\* counted in seconds from StartTime, which stands for a present-day clock:
\* further from 0 than any cooldown.

StartTime == MaxCooldown + DefaultCooldown + 1

NoResult == [identity |-> None, time |-> 0]

ConsumerIdle ==
    consumer = [now |-> StartTime, last |-> 0, cooldown |-> DefaultCooldown,
                log |-> <<>>, calls |-> 0, arg |-> NoResult]

CooldownOver_AtLeast(now, last, cooldown) == now - last >= cooldown

\* main_window.py 1197: current_time - self.last_detection_time > self.detection_cooldown
CooldownOver(now, last, cooldown) == now - last > cooldown

\* time passes
clock_tick ==
    /\ consumer.now < StartTime + MaxTime
    /\ consumer' = [consumer EXCEPT !.now = @ + 1]
    /\ UNCHANGED <<queue_vars, gallery_vars, match_vars, box_vars, tensor_vars,
                   build_vars, frame_vars, timer_vars>>

\* on_frame_processed(display_frame, identity, confidence), lines 1174-1204: with
\* an identity and the cooldown over, log_access records the event and
\* last_detection_time becomes the current time; everything else it does is
\* display.
on_frame_processed ==
    /\ consumer.calls < MaxResults
    /\ \E identity \in {None, Metadata(1), Metadata(2)} :
          LET seen == [consumer EXCEPT
                          !.calls = @ + 1,
                          !.arg = [identity |-> identity, time |-> consumer.now]]
          IN consumer' =
               IF identity # None
                  /\ CooldownOver(consumer.now, consumer.last, consumer.cooldown)
               THEN [seen EXCEPT
                       !.log = Append(@, [time |-> consumer.now,
                                          cooldown |-> consumer.cooldown,
                                          identity |-> identity]),
                       !.last = consumer.now]
               ELSE seen
    /\ UNCHANGED <<queue_vars, gallery_vars, match_vars, box_vars, tensor_vars,
                   build_vars, frame_vars, timer_vars>>

\* show_camera_settings, line 852: self.detection_cooldown = settings['detection_cooldown']
set_detection_cooldown ==
    /\ \E c \in 1..MaxCooldown :
          /\ c # consumer.cooldown
          /\ consumer' = [consumer EXCEPT !.cooldown = c]
    /\ UNCHANGED <<queue_vars, gallery_vars, match_vars, box_vars, tensor_vars,
                   build_vars, frame_vars, timer_vars>>

Init == QueueInit /\ GalleryIdle /\ MatchIdle /\ BoxIdle /\ TensorIdle
        /\ BuildIdle /\ FrameIdle /\ TimerIdle /\ ConsumerIdle

Next ==
    \/ toggle_camera \/ update_settings \/ add_frame_count \/ add_frame_full
    \/ add_frame_put \/ stop_flag \/ stop_wait
    \/ run_begin \/ run_loop \/ run_test_empty \/ run_sleep \/ run_get
    \/ run_process \/ run_emit

Spec == Init /\ [][Next]_vars

\* The scheduler runs the worker thread and the GUI thread again and again:
\* a step of run() that can be taken is taken, and a wait() that can return
\* returns.  Nothing makes the camera deliver frames or the user act.
FairSpec == Spec /\ WF_wpc(Worker) /\ WF_gui_pc(stop_wait)

InitGallery == QueueInit /\ GalleryInit /\ MatchIdle /\ BoxIdle /\ TensorIdle
        /\ BuildIdle /\ FrameIdle /\ TimerIdle /\ ConsumerIdle

NextGallery ==
    \/ register_person \/ reload_database \/ load_clear \/ load_add \/ load_return
    \/ delete_selected_person
    \/ rf_call \/ rf_test \/ rf_iter \/ rf_next \/ rf_return

SpecGallery == InitGallery /\ [][NextGallery]_vars

InitMatch == QueueInit /\ GalleryIdle /\ BoxIdle /\ TensorIdle
        /\ BuildIdle /\ FrameIdle /\ TimerIdle /\ ConsumerIdle /\ MatchInputs

NextMatch == recognize_face

SpecMatch == InitMatch /\ [][NextMatch]_vars

NextMatchers == person_recognizer_recognize_face

SpecMatchers == InitMatch /\ [][NextMatchers]_vars

InitBoxes == QueueInit /\ GalleryIdle /\ MatchIdle /\ TensorIdle
        /\ BuildIdle /\ FrameIdle /\ TimerIdle /\ ConsumerIdle /\ BoxInputs

NextBoxes == scale_detections \/ run_box

SpecBoxes == InitBoxes /\ [][NextBoxes]_vars

InitTensor == QueueInit /\ GalleryIdle /\ MatchIdle /\ BoxIdle
        /\ BuildIdle /\ FrameIdle /\ TimerIdle /\ ConsumerIdle /\ TensorInputs

NextTensor == worker_consume \/ build_consume \/ dialog_consume \/ process_face_tensor

SpecTensor == InitTensor /\ [][NextTensor]_vars

InitBuild == QueueInit /\ GalleryIdle /\ MatchIdle /\ BoxIdle /\ TensorIdle
        /\ FrameIdle /\ TimerIdle /\ ConsumerIdle /\ BuildInputs

NextBuild ==
    \/ build_start \/ build_person \/ build_list \/ build_image \/ build_store
    \/ build_return

SpecBuild == InitBuild /\ [][NextBuild]_vars

InitFrame ==
    QueueInit /\ GalleryIdle /\ MatchIdle /\ BoxIdle /\ TensorIdle /\ BuildIdle
        /\ FrameDequeued /\ TimerIdle /\ ConsumerIdle

NextFrame == frame_resize \/ frame_detect \/ frame_region \/ frame_stamp \/ frame_emit

SpecFrame == InitFrame /\ [][NextFrame]_vars

\* the queue model with the gallery being loaded from the GUI thread
NextThreads == Next \/ load_database_models

SpecThreads == Init /\ [][NextThreads]_vars

\* the worker and its consumer: the GUI thread submits frames and handles the
\* results when it comes to it; the worker thread is scheduled again and
\* again, the consumer is promised nothing
NextDelivery ==
    \/ toggle_camera \/ add_frame_count \/ add_frame_full \/ add_frame_put
    \/ run_begin \/ run_loop \/ run_test_empty \/ run_sleep \/ run_get
    \/ run_process \/ run_emit
    \/ deliver_result

SpecDelivery == Init /\ [][NextDelivery]_vars /\ WF_wpc(Worker)

InitTimer == QueueInit /\ GalleryIdle /\ MatchIdle /\ BoxIdle /\ TensorIdle
        /\ BuildIdle /\ FrameIdle /\ TimerInputs /\ ConsumerIdle

NextTimer == update_frame

SpecTimer == InitTimer /\ [][NextTimer]_vars

NextConsumer == clock_tick \/ on_frame_processed \/ set_detection_cooldown

SpecConsumer == Init /\ [][NextConsumer]_vars

\* ------------------------------------------------------------------ claims
StopCalled == gui_pc \in {"stop_wait", "closed"}
InAddFrame == gui_pc \in {"af_full", "af_put"}
InQueue(f) == \E i \in 1..Len(frame_queue) : frame_queue[i] = f
Processed(f) == emissions[f] > 0 \/ f \in errors
InFlight(f) == frame = f /\ wpc \in {"process", "emit"}

\* C1 as stated: a call of add_frame that begins while the queue holds 2 frames
\* never enqueues its frame.
C1_FullAtCallNeverEnqueues == gui_pc = "af_put" => ~saw_full

\* C1, amended: add_frame never blocks, put() being executed only when the
\* queue has a free slot; and a call whose full() test finds the queue holding
\* 2 frames returns at once, leaves the queue as it is and drops its frame.
C1_AddFrameNeverBlocks ==
    /\ [](gui_pc = "af_put" => Len(frame_queue) < QueueMaxSize)
    /\ [][(gui_pc = "af_full" /\ Len(frame_queue) = QueueMaxSize /\ gui_pc' # gui_pc)
            => /\ gui_pc' = "idle"
               /\ frame_queue' = frame_queue
               /\ fate'[calls] = "dropped"]_vars

C1_Witness == \E f \in Frames : fate[f] = "dropped" /\ gui_pc = "idle"

\* C3: once stop() has been called on a started worker, the worker thread
\* finishes and stop() returns.
C3_StopTerminates ==
    (gui_pc = "stop_wait" /\ thread # "idle") ~> (gui_pc = "closed" /\ thread = "finished")

\* C4: the worker leaves its loop only after stop() was called, and as long as
\* stop() is not called every frame that was enqueued comes to be dequeued and
\* processed, whether or not earlier frames raised: from any state before
\* stop(), a state is reached where every frame enqueued so far has been
\* processed (emitted or reported as an error), or stop() was called.
AllEnqueuedProcessed == \A f \in Frames : fate[f] = "accepted" => Processed(f)

C4_WorkerKeepsRunning ==
    /\ [](thread = "finished" => StopCalled)
    /\ (~StopCalled) ~> (AllEnqueuedProcessed \/ StopCalled)

C4_Witness ==
    \E f, g \in Frames :
        f < g /\ f \in errors /\ emissions[g] > 0 /\ ~StopCalled /\ wpc = "sleep"

\* C5: a frame is dequeued at most once and is in the queue at most once; a
\* frame that add_frame skipped or dropped is never in the queue, never
\* dequeued, never processed and never emitted.
C5_AtMostOnce ==
    \A f \in Frames :
        /\ dequeues[f] <= 1
        /\ emissions[f] <= dequeues[f]
        /\ Cardinality({i \in 1..Len(frame_queue) : frame_queue[i] = f}) <= 1
        /\ InQueue(f) => dequeues[f] = 0
        /\ fate[f] # "accepted" =>
              ~InQueue(f) /\ dequeues[f] = 0 /\ emissions[f] = 0 /\ f \notin errors
              /\ frame # f

C5_Witness ==
    \E f, g \in Frames :
        fate[f] = "dropped" /\ dequeues[g] = 1 /\ emissions[g] = 1

\* C6: the queue never holds more than 2 frames; and when nothing was dequeued
\* and more than process_every_n_frames * 2 frames were submitted under one
\* skip interval n, exactly the frames n and 2n are in the queue and every
\* other frame was skipped or dropped.
C6_DropUnderLoad ==
    /\ Len(frame_queue) <= QueueMaxSize
    /\ (/\ \A f \in Frames : dequeues[f] = 0
        /\ ~skip_changed
        /\ ~InAddFrame
        /\ calls > process_every_n_frames * QueueMaxSize)
       => /\ frame_queue = <<process_every_n_frames, 2 * process_every_n_frames>>
          /\ \A f \in 1..calls :
                IF f \in {process_every_n_frames, 2 * process_every_n_frames}
                THEN fate[f] = "accepted"
                ELSE fate[f] \in {"skipped", "dropped"}

C6_Witness ==
    /\ \A f \in Frames : dequeues[f] = 0
    /\ ~skip_changed
    /\ ~InAddFrame
    /\ calls > process_every_n_frames * QueueMaxSize
    /\ \E f \in Frames : fate[f] = "dropped"

\* C7: every call of add_frame adds one to frame_count, and under one skip
\* interval n the k-th call goes on to the queue exactly when k is a multiple
\* of n: every other call is skipped, and only multiples of n are in the queue.
C7_FrameSkip ==
    /\ frame_count = calls
    /\ ~skip_changed =>
          /\ \A k \in 1..calls :
                (fate[k] \in {"pending", "dropped", "accepted"})
                    <=> (k % process_every_n_frames = 0)
          /\ \A i \in 1..Len(frame_queue) :
                frame_queue[i] % process_every_n_frames = 0

C7_Witness ==
    /\ ~skip_changed
    /\ calls = MaxFrames
    /\ \E f, g, h \in Frames :
          f < g /\ g < h /\ fate[f] = "skipped" /\ fate[g] = "accepted"
          /\ fate[h] = "skipped"

\* C8: every frame the worker has dequeued and finished with was emitted
\* exactly once.
C8_OneEmissionPerFrame ==
    \A f \in Frames : (dequeues[f] > 0 /\ ~InFlight(f)) => emissions[f] = 1

\* C2: every call of recognize_face has walked a complete gallery, the one
\* current when the call began or one installed during the call.
C2_GalleryAtomicity == rf_pc = "done" => rf_seen \in rf_versions

\* the distances recognize_face can measure
OkEntries(g) == {i \in 1..Len(g) : g[i].kind = "ok"}
DistTo(q, g, i) == Norm(VecSub(q, g[i].embeddings))
Dists(q, g) == {DistTo(q, g, i) : i \in OkEntries(g)}
MinOf(S) == CHOOSE x \in S : \A y \in S : x <= y

\* C9: recognize_face returns (None, 0.0) on an empty gallery and whenever the
\* smallest distance is above the threshold, and an identity it returns is that
\* of an entry at most the threshold away.
C9_Rejection ==
    m_pc = "done" =>
        /\ Len(m_gallery) = 0 => m_result = <<None, 0>>
        /\ (Dists(m_query, m_gallery) = {} \/ MinOf(Dists(m_query, m_gallery)) > Threshold)
              => m_result = <<None, 0>>
        /\ m_result[1] # None =>
              \E i \in OkEntries(m_gallery) :
                  /\ m_gallery[i].data = m_result[1]
                  /\ DistTo(m_query, m_gallery, i) <= Threshold

\* Scenario C: one entry at distance 1.5
C9_Witness ==
    /\ m_pc = "done"
    /\ Len(m_gallery) = 1
    /\ Dists(m_query, m_gallery) = {150}
    /\ m_result = <<None, 0>>

Orders(g) ==
    {h \in [1..Len(g) -> {g[i] : i \in 1..Len(g)}] :
        \A i, j \in 1..Len(g) : i # j => h[i] # h[j]}

DistinctDists(q, g) ==
    \A i, j \in OkEntries(g) : i # j => DistTo(q, g, i) # DistTo(q, g, j)

\* C10: when the smallest distance is at most the threshold, recognize_face
\* returns the metadata of an entry at that distance, and when the distances
\* are pairwise distinct it returns the same pair for the gallery in every
\* order.
C10_Nearest ==
    (m_pc = "done" /\ Dists(m_query, m_gallery) # {}
       /\ MinOf(Dists(m_query, m_gallery)) <= Threshold) =>
        /\ \E i \in OkEntries(m_gallery) :
              /\ DistTo(m_query, m_gallery, i) = MinOf(Dists(m_query, m_gallery))
              /\ m_gallery[i].data = m_result[1]
        /\ DistinctDists(m_query, m_gallery) =>
              \A h \in Orders(m_gallery) :
                  RecognizeFace(m_query, h, Threshold) = m_result

\* the nearest entry is the last one, after one that is within the threshold
\* too
C10_Witness ==
    /\ m_pc = "done"
    /\ Len(m_gallery) = MaxGallery
    /\ OkEntries(m_gallery) = 1..MaxGallery
    /\ DistinctDists(m_query, m_gallery)
    /\ DistTo(m_query, m_gallery, 1) <= Threshold
    /\ \A i \in 1..(MaxGallery - 1) :
          DistTo(m_query, m_gallery, MaxGallery) < DistTo(m_query, m_gallery, i)
    /\ m_result[1] = m_gallery[MaxGallery].data
\* the smallest distance recognize_face measured in the call that has returned
MinDist == MinOf(Dists(m_query, m_gallery))
Accepted == m_pc = "done" /\ m_result[1] # None

\* C11: an accepted match at distance d carries the confidence
\* max(0, (1 - d/t) * 100) of the winning entry: it lies in 0..100, is 100 at
\* d = 0, 50 at d = t/2 and 0 at d = t, where the identity is still returned,
\* and of two accepted matches against one gallery the farther one has the
\* strictly smaller confidence.
C11_ConfidenceScore ==
    /\ Accepted =>
          /\ m_result[2] * Threshold = (Threshold - MinDist) * 100
          /\ m_result[2] \in 0..100
          /\ MinDist = 0 => m_result[2] = 100
          /\ 2 * MinDist = Threshold => m_result[2] = 50
          /\ MinDist = Threshold => m_result[2] = 0
          /\ \A q \in Points :
                LET r == RecognizeFace(q, m_gallery, Threshold)
                IN  (r[1] # None /\ MinOf(Dists(q, m_gallery)) > MinDist)
                        => r[2] < m_result[2]
    /\ (m_pc = "done" /\ Dists(m_query, m_gallery) # {} /\ MinDist = Threshold)
          => m_result[1] # None

\* a match exactly at the threshold, after a match at half the threshold for
\* another query against the same gallery
C11_Witness ==
    /\ Accepted
    /\ MinDist = Threshold
    /\ m_result[2] = 0
    /\ \E q \in Points :
          /\ 2 * MinOf(Dists(q, m_gallery)) = Threshold
          /\ RecognizeFace(q, m_gallery, Threshold)[2] = 50

\* the lifecycle state of the worker:
\*   Idle      the thread was never started and stop() was not called
\*   Running   the thread is started and stop() is not in effect: the flag is
\*             set, or run() has not reached line 57 and stop() was not called
\*   Stopping  stop() has cleared the flag and the thread has not finished
\*   Stopped   the thread has finished, or stop() was called on an idle worker
Lifecycle ==
    IF thread = "finished" THEN "Stopped"
    ELSE IF thread = "idle" THEN (IF StopCalled THEN "Stopped" ELSE "Idle")
    ELSE IF running THEN "Running"
    ELSE IF StopCalled THEN "Stopping" ELSE "Running"

\* C12: the lifecycle state changes only along Idle -> Running -> Stopping ->
\* Stopped (stop() on an idle worker going to Stopped at once); in particular
\* the worker is never Running again once stop() has been called.
C12_Lifecycle ==
    [][Lifecycle' # Lifecycle =>
            <<Lifecycle, Lifecycle'>> \in
                {<<"Idle", "Running">>, <<"Running", "Stopping">>,
                 <<"Stopping", "Stopped">>, <<"Idle", "Stopped">>}]_vars

\* C13: stop() on a worker that was never started returns: wait() does not
\* block, the worker is left not running and the queue as it was, empty.
C13_StopNeverStarted ==
    /\ []((StopCalled /\ thread = "idle") => (~running /\ wpc = "none"))
    /\ [][(gui_pc = "idle" /\ gui_pc' = "stop_wait" /\ thread = "idle")
            => (frame_queue' = frame_queue /\ thread' = "idle" /\ ~running')]_vars
    /\ [][(gui_pc = "stop_wait" /\ thread = "idle" /\ gui_pc' # gui_pc)
            => (gui_pc' = "closed" /\ frame_queue' = frame_queue /\ thread' = "idle"
                /\ ~running')]_vars
    /\ (gui_pc = "stop_wait" /\ thread = "idle") ~> (gui_pc = "closed")

C13_Witness == gui_pc = "closed" /\ thread = "idle" /\ ~running /\ frame_queue = <<>>

\* 0 <= x1 < x2 <= width and 0 <= y1 < y2 <= height
InsideFrame(box, shape) ==
    /\ 0 <= box[1] /\ box[1] < box[3] /\ box[3] <= shape[2]
    /\ 0 <= box[2] /\ box[2] < box[4] /\ box[4] <= shape[1]

\* C14: every box that scale_detections returns and every box that run() goes
\* on to crop lies inside the frame with a positive width and height; a box
\* that does not after clamping is returned by neither, and run() keeps no box
\* that scale_detections drops.
C14_BoxClamping ==
    /\ \A i \in 1..Len(b_scaled) : InsideFrame(b_scaled[i], b_shape)
    /\ b_kept # <<>> => InsideFrame(b_kept, b_shape)
    /\ (b_pc \in {"scaled", "done"}
          /\ ~InsideFrame(ScaleAndClamp(b_box, b_shape, <<SmallWidth, SmallHeight>>),
                          b_shape))
          => (b_scaled = <<>> /\ b_kept = <<>>)
    /\ (b_pc = "done" /\ b_kept # <<>>) => b_scaled = <<b_kept>>

\* a box that reaches beyond the right and the lower edge is cut to the frame
\* and kept
C14_Witness ==
    /\ b_pc = "done"
    /\ b_kept # <<>>
    /\ ScaleCoord(b_box[3], b_shape[2], SmallWidth) > b_shape[2]
    /\ ScaleCoord(b_box[4], b_shape[1], SmallHeight) > b_shape[1]
    /\ b_kept[3] = b_shape[2] /\ b_kept[4] = b_shape[1]

\* the input is a tensor of rank 3, 4 or 5
RankIn(t, ranks) == t.kind = "tensor" /\ Len(t.shape) \in ranks /\ t.shape # Tail(CHW)
\* the most probable face of a tensor
Best(t) == CHOOSE f \in {t.faces[i] : i \in 1..Len(t.faces)} :
              \A i \in 1..Len(t.faces) : t.faces[i] <= f

\* C15: the normalization turns a tensor of shape (C,H,W), (1,C,H,W) or
\* (1,1,C,H,W) into the tensor of shape (1,C,H,W) that holds the same face;
\* every input of rank 3, 4 or 5 leaves it with rank 4 and a leading dimension
\* of size 1; and normalizing the result again changes nothing.
C15_RankNormalization ==
    (t_pc = "done" /\ RankIn(t_faces, {3, 4, 5})) =>
        /\ t_faces.shape \in {CHW, <<1>> \o CHW, <<1, 1>> \o CHW}
              => t_pft = Tensor(<<1>> \o CHW, t_faces.faces)
        /\ Len(t_pft.shape) = 4 /\ t_pft.shape[1] = 1 /\ Tail(t_pft.shape) = CHW
        /\ ProcessFaceTensor(t_pft) = t_pft

\* C16: the live worker, the gallery build, the registration dialog and
\* process_face_tensor pass the same tensor to the embedding network, or all
\* pass none.
C16_SameAtEveryConsumer ==
    t_pc = "done" =>
        /\ t_worker.fed = t_build.fed
        /\ t_build.fed = t_dialog.fed
        /\ t_dialog.fed = t_pft
        /\ t_worker.emb = t_build.emb
        /\ t_build.emb = t_dialog.emb

\* C17: of a detection that holds several faces the worker and the gallery
\* build embed exactly one face, the most probable one.
C17_SeveralFaces ==
    (t_pc = "done" /\ FirstOf(t_faces).kind = "tensor"
       /\ Len(FirstOf(t_faces).shape) = 4 /\ Len(FirstOf(t_faces).faces) > 1) =>
        /\ t_worker.emb = <<Best(FirstOf(t_faces))>>
        /\ t_build.emb = <<Best(FirstOf(t_faces))>>

\* entry d of the gallery holds the arithmetic mean of the embeddings that e
\* sums up
IsMeanOf(d, e) ==
    /\ Len(d.embeddings) = Len(e.sum)
    /\ \A k \in 1..Len(d.embeddings) : d.embeddings[k] * e.count = e.sum[k]

\* the folder scanned last among those of its name
LastOfName(e, S) == \A x \in S : x.person = e.person => x.folder <= e.folder

\* C18: load_database returns a gallery that holds, for every identity with at
\* least one embedding computed from its first 5 images, the arithmetic mean of
\* exactly those embeddings, and no entry for an identity without one; at most
\* 5 images of an identity are tried.  (Of several folders under one name the
\* one scanned last is the identity.)
C18_MeanEmbedding ==
    /\ g_tried <= ImageLimit
    /\ g_pc = "returned" =>
          /\ \A e \in g_good :
                LastOfName(e, g_good) =>
                    \E d \in g_db :
                        /\ d.person = e.person
                        /\ e.uniform => IsMeanOf(d, e)
          /\ DbKeys(g_db) \subseteq {e.person : e \in g_good}

\* C19: a failure ends at most the identity it belongs to: load_database
\* returns only when no identity folder after the one at hand is left
\* unvisited, and every identity for which an embedding was computed is in the
\* gallery it returns.
C19_FailureIsolation ==
    g_pc = "returned" =>
        /\ g_person >= g_total
        /\ \A e \in g_good : e.person \in DbKeys(g_db)

\* the identity folders whose embeddings gave a mean
Embedded == {e \in g_good : e.uniform}

\* C29: the gallery is keyed by the folder name alone: it holds one entry per
\* name of a successfully embedded identity folder, whatever the faculty, and
\* the entry of a name is the mean of the folder of that name scanned last.
C29_KeysAreFolderNames ==
    g_pc = "returned" =>
        /\ DbKeys(g_db) = {e.person : e \in Embedded}
        /\ Cardinality(g_db) = Cardinality({e.person : e \in Embedded})
        /\ \A d \in g_db : \A e \in Embedded :
              (e.person = d.person /\ LastOfName(e, Embedded)) => IsMeanOf(d, e)

\* two folders of one name, both embedded, with
\* different means: the gallery holds the second one alone
C29_Witness ==
    /\ g_pc = "returned"
    /\ ~g_aborted
    /\ g_total = MaxIdentities
    /\ \E e1, e2 \in Embedded :
          /\ e1.person = e2.person
          /\ e1.folder < e2.folder
          /\ \E d \in g_db : IsMeanOf(d, e2) /\ ~IsMeanOf(d, e1)
    /\ Cardinality(g_db) = 1

\* the loop body is over for this frame
FrameOver == f_pc \in {"done", "failed"}

\* C20: when the person detector raises, the loop body goes on with the frame
\* as with a frame in which no person was found: the frame is emitted once,
\* without regions, with no identity and confidence 0.
C20_DetectorFailure ==
    (FrameOver /\ f_error = "detector") =>
        f_emitted = <<[identity |-> None, confidence |-> 0, regions |-> <<>>]>>

\* the boxes whose face step ended without an embedding: no face was found, or
\* a step raised
NoEmbedding(regions) ==
    {i \in 1..Len(regions) : regions[i].region \in {"skipped", "raised"}}

\* C21: a region in which no face is found or in which the face detector, the
\* embedding network or the matcher raises ends alone: nothing of it reaches
\* the except of the frame loop, the loop goes on to the next box with the
\* frame's other results untouched, and a frame that nothing else fails is
\* emitted once with all its boxes gone through.
C21_RegionFailure ==
    /\ [](f_error # "region")
    /\ [][(f_pc = "regions" /\ f_left > 0 /\ f_regions' # f_regions) =>
            /\ f_pc' = "regions"
            /\ f_left' = f_left - 1
            /\ f_error' = f_error
            /\ \A i \in 1..Len(f_regions) : f_regions'[i] = f_regions[i]
            /\ f_regions'[Len(f_regions')].region = "skipped" =>
                  (f_identity' = f_identity /\ f_confidence' = f_confidence)]_vars
    /\ []((FrameOver /\ f_error = "none") =>
            /\ f_left = 0
            /\ Len(f_emitted) = 1
            /\ f_emitted[1].regions = f_regions)

\* the first box raised, the second one was recognized, the frame was emitted
C21_Witness ==
    /\ f_pc = "done"
    /\ Len(f_regions) = MaxBoxes
    /\ f_regions[1].region = "raised"
    /\ f_regions[1].match = <<None, 0>>
    /\ f_regions[MaxBoxes].region = "known"
    /\ Len(f_emitted) = 1
    /\ f_emitted[1].identity = Metadata(1)

\* the boxes for which recognize_face returned an identity with a confidence
\* above 20
GoodBoxes(regions) ==
    {i \in 1..Len(regions) : regions[i].match[1] # None
                               /\ regions[i].match[2] > MinConfidence}

LastOf(S) == CHOOSE i \in S : \A j \in S : j <= i

\* C26: an emitted frame carries (None, 0) or an identity with a confidence
\* above 20; identity and confidence are those recognize_face returned for the
\* last box, in detector order, for which it returned an identity with a
\* confidence above 20, and (None, 0) when there is no such box, a match with a
\* confidence of at most 20 counting as none.
C26_EmittedResult ==
    \A k \in 1..Len(f_emitted) :
        LET e == f_emitted[k]
            good == GoodBoxes(e.regions)
        IN  /\ \/ (e.identity = None /\ e.confidence = 0)
               \/ (e.identity # None /\ e.confidence > MinConfidence)
            /\ IF good = {}
               THEN e.identity = None /\ e.confidence = 0
               ELSE <<e.identity, e.confidence>> = e.regions[LastOf(good)].match

\* person 2 was recognized in the first box, and the second box matched
\* person 1 within the threshold with a confidence of at most 20
C26_Witness ==
    /\ Len(f_emitted) = 1
    /\ Len(f_emitted[1].regions) = MaxBoxes
    /\ f_emitted[1].regions[1].match[1] = Metadata(2)
    /\ f_emitted[1].regions[MaxBoxes].match[1] = Metadata(1)
    /\ f_emitted[1].regions[MaxBoxes].match[2] <= MinConfidence
    /\ f_emitted[1].identity = Metadata(2)

RECURSIVE Measurable(_)
\* the entries of the persons seen whose distance can be measured
Measurable(seen) ==
    IF seen = <<>> THEN <<>>
    ELSE IF KindOf(Head(seen)) = "ok"
         THEN <<StoredEntry(Head(seen))>> \o Measurable(Tail(seen))
         ELSE Measurable(Tail(seen))

C30_MatchersAgree ==
    m_pc = "compared" => \A t \in Thresholds : m_both[t].fp = m_both[t].pr

\* a gallery whose nearest entry comes last and lies between two of the
\* thresholds: both matchers reject under the smaller and accept under the
\* larger one
C30_Witness ==
    /\ m_pc = "compared"
    /\ Len(m_gallery) = MaxGallery
    /\ \E t, u \in Thresholds :
          /\ m_both[t].pr = <<None, 0>>
          /\ m_both[u].pr[1] = m_gallery[MaxGallery].data
          /\ m_both[u].fp[2] > 0


\* C24 as stated: with the frame skip set to N, every N consecutive timer ticks
\* hold exactly one tick whose frame is submitted for processing.
C24_OneOfEveryN ==
    \A a \in 1..timer.ticks :
        a + timer.n - 1 <= timer.ticks =>
            Cardinality({t \in a..(a + timer.n - 1) : t \in timer.submitted}) = 1

\* C24, what the code does: the window passes one tick of N to add_frame, and
\* add_frame lets one of N of those through: the ticks submitted are the
\* multiples of N * N.
C24_OneOfEveryNSquared ==
    /\ timer.reads = {t \in 1..timer.ticks : t % timer.n = 0}
    /\ timer.submitted = {t \in 1..timer.ticks : t % (timer.n * timer.n) = 0}

Recorded == Len(consumer'.log) > Len(consumer.log)

\* C25: an access event is recorded only for a result with an identity that
\* arrives more than detection_cooldown seconds after the last recorded event,
\* so recorded events lie more than the cooldown in force apart; a result with
\* no identity records nothing and leaves last_detection_time alone.
C25_Cooldown ==
    /\ [][Recorded =>
            /\ consumer'.calls = consumer.calls + 1
            /\ consumer'.arg.identity # None
            /\ consumer.now - consumer.last > consumer.cooldown
            /\ consumer'.log = Append(consumer.log,
                                      [time |-> consumer.now,
                                       cooldown |-> consumer.cooldown,
                                       identity |-> consumer'.arg.identity])
            /\ consumer'.last = consumer.now]_vars
    /\ [][(consumer'.calls = consumer.calls + 1 /\ consumer'.arg.identity = None) =>
            (consumer'.log = consumer.log /\ consumer'.last = consumer.last)]_vars
    /\ [][consumer'.last # consumer.last => Recorded]_vars
    /\ [](consumer.last = IF consumer.log = <<>> THEN 0
                          ELSE consumer.log[Len(consumer.log)].time)
    /\ [](\A i \in 2..Len(consumer.log) :
            consumer.log[i].time - consumer.log[i - 1].time > consumer.log[i].cooldown)

\* two events were recorded, and the last result handled carried an identity
\* and came after the last recorded event, within the cooldown: it was dropped
C25_Witness ==
    /\ Len(consumer.log) = 2
    /\ consumer.arg.identity # None
    /\ consumer.arg.time > consumer.last
    /\ consumer.arg.time - consumer.last <= consumer.cooldown

FrameWork ==
    \/ dequeues' # dequeues
    \/ errors' # errors
    \/ emissions' # emissions
    \/ fps_deque' # fps_deque
    \/ <<"worker", "frame">> \in inference' \ inference

C23_EmitNeverBlocks ==
    /\ (wpc = "emit") ~> (wpc = "loop")
    /\ (frame_queue # <<>>) ~> (frame_queue = <<>> /\ frame = 0)
    /\ [](wpc = "emit" => (fps_deque # <<>> /\ fps_deque[Len(fps_deque)] = frame))
    /\ [][Len(events') > Len(events) =>
            /\ wpc = "emit" /\ wpc' = "loop"
            /\ events' = Append(events, frame)
            /\ fps_deque' = fps_deque]_vars
    /\ [][Len(events') < Len(events) =>
            UNCHANGED <<wpc, frame, frame_queue, fps_deque, emissions, dequeues>>]_vars

\* two results wait for the consumer, none was handled, and the worker has
\* gone back to its loop
C23_Witness ==
    /\ Len(events) = 2
    /\ Len(fps_deque) = 2
    /\ wpc = "test_empty"
    /\ frame = 0

\* frames the worker still holds: those queued and the one in flight
Backlog == Len(frame_queue) + (IF frame # 0 THEN 1 ELSE 0)
Stopped == ~is_camera_running /\ ~is_camera_running'

\* C28: stopping the monitoring leaves the worker running with at most
\* 2 queued frames and one in flight; while the monitoring stays stopped no
\* frame is submitted, every result emitted takes one frame off that backlog,
\* so at most 3 further results are emitted, and once the backlog is gone the
\* queue stays empty and nothing is emitted.
C28_AfterStop ==
    /\ [][(is_camera_running /\ ~is_camera_running') =>
            /\ UNCHANGED <<thread, wpc, loops, running, frame_queue, frame, events>>
            /\ Backlog <= QueueMaxSize + 1]_vars
    /\ [][Stopped =>
            /\ calls' = calls
            /\ Backlog' <= Backlog
            /\ Len(events') <= Len(events) + 1
            /\ Len(events') > Len(events) => Backlog' = Backlog - 1]_vars
    /\ [][(Stopped /\ Backlog = 0) =>
            (frame_queue' = <<>> /\ frame' = 0 /\ events' = events
             /\ emissions' = emissions)]_vars
    /\ [](~is_camera_running =>
            \A f \in Frames :
                (fate[f] = "accepted" /\ dequeues[f] = 0) => InQueue(f))

\* monitoring was stopped with two frames queued and one in flight, and the
\* worker still runs
C28_Witness ==
    /\ ~is_camera_running
    /\ thread = "running"
    /\ Len(frame_queue) = QueueMaxSize
    /\ wpc = "emit"
    /\ frame # 0
====
